---- MODULE Spec2Model ----
(***************************************************************************)
(* Key lifecycle of xmidt-org/utu: the Keys store (keys.go), the key       *)
(* generator (keyGenerator.go) and the Rotator with its rotation and       *)
(* retirement goroutines (rotator.go).                                     *)
(*                                                                         *)
(* Time is discrete, one unit is one minute, and it is kept as the time    *)
(* left on each ticker and timer and the time since each key stopped       *)
(* being current.  Keys are numbered in the order they are generated; the  *)
(* number stands for the 16 random bytes of the kid and for the random     *)
(* key material.                                                           *)
(***************************************************************************)
EXTENDS Integers, Sequences, FiniteSets, TLC

\* ------------------------------------------------------------------ bounds
MaxKeys == 3        \* keys generated in one run of the process
MaxStarts == 2      \* effective Start calls on the Rotator
MaxRotate == 1      \* largest configured rotation interval
MaxExpires == 1     \* largest configured token expiry
MaxCallers == 2     \* goroutines calling Keys.Rotate directly
MaxKeySize == 2     \* largest --key-size tried
MaxOps == 4         \* Store and Delete calls made on the KeyStore by callers
MaxWrites == 1      \* of these, calls made while the Rotator is running
MaxReaders == 1     \* callers of CurrentKey.Load beside the KeyStore callers

\* --------------------------------------------------------------- constants
Minute == 1         \* time.Minute, the safety margin added to the expiry

Nil == 0            \* a nil pointer, a nil error slot, no kid
NoTime == -1

ErrNil == "nil"
ErrDeleteCurrentKey == "cannot delete the current key"
ErrNoSuchKey == "no key exists with that identifier"
ErrGenerate == "generation failed"
ErrSign == "failed to sign"
ErrPublicKey == "no public key"
ErrStore == "store failed"

Kids == 1..MaxKeys
\* kids a caller may pass to Delete: every kid that can be generated and
\* one (MaxKeys + 1) that never is
KidSpace == 1..(MaxKeys + 1)

VARIABLES
  cli,            \* the parsed command line: [KeyRotate, Expires]
  phase,          \* "new" before NewKeys, then "ready" or "failed"
  generatedKeys,  \* keys.generatedKeys: kid -> GeneratedKey
  current,        \* keys.current: a GeneratedKey, NilKey before NewKeys
  publicSet,      \* keys.publicSet: the jwk.Set, a sequence of public keys
  publicSetJWK,   \* keys.publicSetJWK: the marshaled set
  nextKey,        \* number of keys the generator has produced
  cancel,         \* r.ctx / r.cancel: the live context, Nil when stopped
  nctx,           \* contexts created so far
  ctxDone,        \* the cancelled contexts
  runs,           \* context -> its rotateTask.run goroutine
  cleanups,       \* the rotateTask.cleanup goroutines
  clientGen,      \* caller -> its new key, between Rotate's Generate and lock
  ret,            \* what the last step returned, if it was the return of a
                  \*   Keys call; NoRet after every other step
  age,            \* kid -> minutes since its key stopped being current,
                  \*   counted up to the grace period; NoTime if it never stopped
  removedBy,      \* kid -> who removed its record ("" while never removed)
  currentKey,     \* CurrentKey.current, the atomic.Value of the register
  keyStore,       \* InMemoryKeyStore.keys: kid -> Key
  stored,         \* the Keys given to CurrentKey.Store, in order (history)
  storeLog,       \* the writes of the KeyStore in lock order (history)
  loaders,        \* caller -> its CurrentKey.Load call in progress
  keyGenerator,   \* the *KeyGenerator and the error of NewKeyGenerator
  lock,           \* keys.lock: [w: the caller holding Lock, Nil if none;
                  \*   r: the callers holding RLock]
  calls           \* caller -> its call on Keys in progress, step by step

storeVars == <<generatedKeys, current, publicSet, publicSetJWK>>
histVars == <<age, removedBy>>
rotatorVars == <<cancel, nctx, ctxDone, runs, cleanups>>
regVars == <<currentKey, keyStore, stored, storeLog, loaders, keyGenerator>>
lockVars == <<lock, calls>>
vars == <<cli, phase, generatedKeys, current, publicSet, publicSetJWK, nextKey,
          cancel, nctx, ctxDone, runs, cleanups, clientGen, ret,
          age, removedBy,
          currentKey, keyStore, stored, storeLog, loaders, keyGenerator,
          lock, calls>>

\* ------------------------------------------------------------ key material
\* jwk.Key: kid, the public parameters and the private parameter (Nil in a
\* public key)
PublicKey(key) == [key EXCEPT !.priv = Nil]

\* json.Marshal of one jwk.Key: the members of the JSON object
MarshalKey(key) ==
  IF key.priv = Nil
    THEN <<"kid", key.kid, "pub", key.pub>>
    ELSE <<"kid", key.kid, "pub", key.pub, "d", key.priv>>

\* json.Marshal of a jwk.Set: {"keys":[...]} in insertion order
MarshalSet(set) == [keys |-> [i \in 1..Len(set) |-> MarshalKey(set[i])]]

\* a generator whose third key repeats the kid of the first
GenerateRepeating(n) ==
  LET id == IF n = 3 THEN 1 ELSE n
      key == [kid |-> id, pub |-> n, priv |-> n]
  IN  [kid |-> id, key |-> key, publicKey |-> PublicKey(key),
       publicJWK |-> MarshalKey(PublicKey(key))]

\* KeyGenerator.Generate on success, for the n-th draw of randomness
Generate(n) ==
  LET key == [kid |-> n, pub |-> n, priv |-> n]
  IN  [kid |-> n, key |-> key, publicKey |-> PublicKey(key),
       publicJWK |-> MarshalKey(PublicKey(key))]

KID(gk) == gk.kid

\* a nil *GeneratedKey and a nil []byte
NilKey == Generate(Nil)
NilBytes == [nil |-> TRUE]

\* jwk.Set.AddKey: append unless that key is already a member
AddKey(set, key) ==
  IF \E i \in 1..Len(set) : set[i] = key THEN set ELSE Append(set, key)

\* RemoveKey that finds nothing to drop
RemoveKeyNothing(set, key) == set

\* jwk.Set.RemoveKey: drop the member equal to key
RemoveKey(set, key) == SelectSeq(set, LAMBDA k : k # key)

\* ------------------------------------------------------------- Keys reads
Get(kid) ==
  IF kid \in DOMAIN generatedKeys
    THEN [gk |-> generatedKeys[kid], exists |-> TRUE]
    ELSE [gk |-> Nil, exists |-> FALSE]

Current == current

\* Keys.WriteTo: the bytes handed to the writer
WriteTo == publicSetJWK

\* ------------------------------------------------------------------- Init
NoRet == [op |-> "none", by |-> "none", kid |-> Nil, err |-> ErrNil,
          key |-> Nil]

\* a sync.RWMutex nobody holds, and a caller outside every Keys method
Unlocked == [w |-> Nil, r |-> {}]
IdleCall == [op |-> "none", pc |-> "idle", kid |-> Nil, bytes |-> [nil |-> TRUE],
             gk |-> NilKey]

\* no KeyGenerator was constructed yet
NoGenerator == [made |-> FALSE]

\* a caller that is not inside CurrentKey.Load
IdleLoader == [pc |-> "idle", from |-> 0, k |-> [empty |-> TRUE], err |-> "nil"]

\* an atomic.Value nothing was stored in
NoKey == [empty |-> TRUE]

Init ==
  /\ cli \in [KeyRotate : 1..MaxRotate, Expires : 0..MaxExpires]
  /\ phase = "new"
  /\ generatedKeys = <<>>
  /\ current = NilKey
  /\ publicSet = <<>>
  /\ publicSetJWK = NilBytes
  /\ nextKey = 0
  /\ cancel = Nil
  /\ nctx = 0
  /\ ctxDone = {}
  /\ runs = <<>>
  /\ cleanups = {}
  /\ clientGen = [p \in 1..MaxCallers |-> NilKey]
  /\ ret = NoRet
  /\ age = [k \in KidSpace |-> NoTime]
  /\ removedBy = [k \in KidSpace |-> ""]
  /\ currentKey = NoKey
  /\ keyStore = <<>>
  /\ stored = <<>>
  /\ storeLog = <<>>
  /\ loaders = [p \in 1..MaxCallers |-> IdleLoader]
  /\ keyGenerator = NoGenerator
  /\ lock = Unlocked
  /\ calls = [p \in 1..MaxCallers |-> IdleCall]

\* ------------------------------------------------------------ Keys writes
\* an insert that keeps no other record
AddedKeysAlone(newKey) == [k \in {KID(newKey)} |-> newKey]

\* Keys.unsafeAddKey: the three assignments, as the new values
AddedKeys(newKey) ==
  [k \in DOMAIN generatedKeys \cup {KID(newKey)} |->
     IF k = KID(newKey) THEN newKey ELSE generatedKeys[k]]

unsafeAddKey(newKey) ==
  /\ generatedKeys' = AddedKeys(newKey)
  /\ publicSet' = AddKey(publicSet, newKey.publicKey)
  /\ publicSetJWK' = MarshalSet(AddKey(publicSet, newKey.publicKey))

\* NewKeys: the first Generate, then current and unsafeAddKey
NewKeysOk ==
  /\ phase = "new"
  /\ nextKey < MaxKeys
  /\ nextKey' = nextKey + 1
  /\ current' = Generate(nextKey + 1)
  /\ unsafeAddKey(Generate(nextKey + 1))
  /\ phase' = "ready"
  /\ ret' = [NoRet EXCEPT !.op = "NewKeys", !.key = nextKey + 1]
  /\ UNCHANGED <<cli, clientGen>>
  /\ UNCHANGED rotatorVars
  /\ UNCHANGED histVars
  /\ UNCHANGED regVars
  /\ UNCHANGED lockVars

\* a NewKeys that fails and has installed a current key all the same
NewKeysFailInstalls ==
  /\ phase = "new"
  /\ phase' = "failed"
  /\ current' = Generate(nextKey + 1)
  /\ ret' = [NoRet EXCEPT !.op = "NewKeys", !.err = ErrGenerate]
  /\ UNCHANGED <<cli, nextKey, clientGen>>
  /\ UNCHANGED <<generatedKeys, publicSet, publicSetJWK>>
  /\ UNCHANGED rotatorVars
  /\ UNCHANGED histVars
  /\ UNCHANGED regVars
  /\ UNCHANGED lockVars

\* NewKeys whose first Generate fails: the error is returned
NewKeysFail ==
  /\ phase = "new"
  /\ phase' = "failed"
  /\ ret' = [NoRet EXCEPT !.op = "NewKeys", !.err = ErrGenerate]
  /\ UNCHANGED <<cli, nextKey, clientGen>>
  /\ UNCHANGED storeVars
  /\ UNCHANGED rotatorVars
  /\ UNCHANGED histVars
  /\ UNCHANGED regVars
  /\ UNCHANGED lockVars

\* a critical section that swaps current and forgets the insert
RotateLockedNoAdd(newKey) ==
  /\ current' = newKey
  /\ UNCHANGED <<generatedKeys, publicSet, publicSetJWK>>

\* Keys.Rotate, the part under keys.lock: insert, then swap current
RotateLocked(newKey) ==
  /\ unsafeAddKey(newKey)
  /\ current' = newKey

\* Keys.Rotate: the key it returns, "The new current key is returned"
RotateResult(newKey) == newKey

\* rotateTask.run, old, _, err := rt.keys.Rotate(): the first of the three
\* results it destructures, the key that was current before the swap ("The
\* previous current key will be deleted", Rotator)
RotateOld == current

\* The result record of a Rotate that succeeded
RotateRet(newKey, by) ==
  [op |-> "Rotate", by |-> by, kid |-> Nil, err |-> ErrNil,
   key |-> KID(RotateResult(newKey))]

RotateFailRet(by) ==
  [op |-> "Rotate", by |-> by, kid |-> Nil, err |-> ErrGenerate,
   key |-> Nil]

\* Delete without the guard on the current key
DeleteErrNoGuard(kid) ==
  IF kid \notin DOMAIN generatedKeys THEN ErrNoSuchKey ELSE ErrNil

\* Delete that answers a missing kid with the other sentinel
DeleteErrWrongSentinel(kid) ==
  IF current.key.kid = kid THEN ErrDeleteCurrentKey
  ELSE IF kid \notin DOMAIN generatedKeys THEN ErrDeleteCurrentKey
  ELSE ErrNil

\* Keys.Delete: the error it returns for kid in the present state
DeleteErr(kid) ==
  IF current.key.kid = kid THEN ErrDeleteCurrentKey
  ELSE IF kid \notin DOMAIN generatedKeys THEN ErrNoSuchKey
  ELSE ErrNil

\* Delete that leaves the map as it was
DeletedKeysNone(kid) == generatedKeys

\* Keys.Delete: the map after delete(keys.generatedKeys, kid)
DeletedKeys(kid) ==
  [k \in DOMAIN generatedKeys \ {kid} |-> generatedKeys[k]]

\* Keys.Delete, whole, for a caller "client" or "rotator"
Delete(kid, by) ==
  /\ IF DeleteErr(kid) = ErrNil
       THEN /\ generatedKeys' = DeletedKeys(kid)
            /\ publicSet' = RemoveKey(publicSet, generatedKeys[kid].publicKey)
            /\ publicSetJWK' =
                 MarshalSet(RemoveKey(publicSet, generatedKeys[kid].publicKey))
            /\ removedBy' = [removedBy EXCEPT ![kid] = by]
       ELSE UNCHANGED <<generatedKeys, publicSet, publicSetJWK, removedBy>>
  /\ ret' = [op |-> "Delete", by |-> by, kid |-> kid, err |-> DeleteErr(kid),
             key |-> Nil]
  /\ UNCHANGED <<current, age>>
  /\ UNCHANGED regVars

\* the key that was current has just been replaced
Superseded == age' = [age EXCEPT ![KID(current)] = 0]

\* ---------------------------------------------------- direct Keys callers
ClientDelete(kid) ==
  /\ phase = "ready"
  /\ Delete(kid, "client")
  /\ UNCHANGED lockVars
  /\ UNCHANGED <<cli, phase, nextKey, clientGen>>
  /\ UNCHANGED rotatorVars

\* Rotate, first half: Generate outside the lock
ClientGenerate(p) ==
  /\ phase = "ready"
  /\ clientGen[p] = NilKey
  /\ nextKey < MaxKeys
  /\ nextKey' = nextKey + 1
  /\ clientGen' = [clientGen EXCEPT ![p] = Generate(nextKey + 1)]
  /\ ret' = NoRet
  /\ UNCHANGED <<cli, phase>>
  /\ UNCHANGED storeVars
  /\ UNCHANGED rotatorVars
  /\ UNCHANGED histVars
  /\ UNCHANGED regVars
  /\ UNCHANGED lockVars

\* a Rotate that inserts the key it failed to generate
ClientGenerateFailAdds(p) ==
  /\ phase = "ready"
  /\ clientGen[p] = NilKey
  /\ nextKey < MaxKeys
  /\ nextKey' = nextKey + 1
  /\ unsafeAddKey(Generate(nextKey + 1))
  /\ ret' = RotateFailRet("client")
  /\ UNCHANGED <<cli, phase, current, clientGen>>
  /\ UNCHANGED rotatorVars
  /\ UNCHANGED histVars
  /\ UNCHANGED regVars
  /\ UNCHANGED lockVars

\* Rotate whose Generate fails: the error is returned
ClientGenerateFail(p) ==
  /\ phase = "ready"
  /\ clientGen[p] = NilKey
  /\ ret' = RotateFailRet("client")
  /\ UNCHANGED <<cli, phase, nextKey, clientGen>>
  /\ UNCHANGED storeVars
  /\ UNCHANGED rotatorVars
  /\ UNCHANGED histVars
  /\ UNCHANGED regVars
  /\ UNCHANGED lockVars

\* Rotate, second half: the critical section and the return
ClientCommit(p) ==
  /\ clientGen[p] # NilKey
  /\ RotateLocked(clientGen[p])
  /\ Superseded
  /\ ret' = RotateRet(clientGen[p], "client")
  /\ clientGen' = [clientGen EXCEPT ![p] = NilKey]
  /\ UNCHANGED <<cli, phase, nextKey, removedBy>>
  /\ UNCHANGED rotatorVars
  /\ UNCHANGED regVars
  /\ UNCHANGED lockVars

\* ---------------------------------------------------------------- Rotator
\* NewRotator: r.rotate
RotateInterval == cli.KeyRotate

\* a grace period without the extra minute
GraceNoMargin == cli.Expires

\* NewRotator: r.grace
Grace == cli.Expires + Minute

\* context.Context.Done() is closed
Done(ctx) == ctx \in ctxDone

\* A goroutine blocked in a select statement is released by the first of
\* its channels to become ready; one that reaches the select with several
\* channels ready takes any of them.  pc "select" is a goroutine about to
\* evaluate its select, "parked" one blocked in it.

\* time.NewTicker(r.rotate) and go rotateTask{...}.run()
NewRun == [pc |-> "select", tickReady |-> FALSE, tick |-> RotateInterval,
           tickerStopped |-> FALSE, gen |-> NilKey]

\* a Start that does not look at r.cancel
StartAgain ==
  /\ phase = "ready"
  /\ nctx < MaxStarts
  /\ nctx' = nctx + 1
  /\ cancel' = nctx + 1
  /\ runs' = [c \in 1..(nctx + 1) |-> IF c = nctx + 1 THEN NewRun ELSE runs[c]]
  /\ ret' = NoRet
  /\ UNCHANGED <<cli, phase, nextKey, ctxDone, cleanups, clientGen>>
  /\ UNCHANGED storeVars
  /\ UNCHANGED histVars
  /\ UNCHANGED regVars
  /\ UNCHANGED lockVars

\* Rotator.Start: under r.lock, a new context, ticker and run goroutine
\* unless already started
Start ==
  /\ phase = "ready"
  /\ IF cancel = Nil
       THEN /\ nctx < MaxStarts
            /\ nctx' = nctx + 1
            /\ cancel' = nctx + 1
            /\ runs' = [c \in 1..(nctx + 1) |->
                          IF c = nctx + 1 THEN NewRun ELSE runs[c]]
       ELSE UNCHANGED <<nctx, cancel, runs>>
  /\ ret' = NoRet
  /\ UNCHANGED <<cli, phase, nextKey, ctxDone, cleanups, clientGen>>
  /\ UNCHANGED storeVars
  /\ UNCHANGED histVars
  /\ UNCHANGED regVars
  /\ UNCHANGED lockVars

\* cancel() releases the run goroutine of ctx if it is blocked in its select
CancelledRun(task) ==
  IF task.pc = "parked" THEN [task EXCEPT !.pc = "cancelled"] ELSE task

\* cancel() releases a cleanup goroutine blocked in its select; early notes
\* that the context was cancelled while the grace timer was still running
CancelledCleanup(t) ==
  [t EXCEPT !.pc = IF @ = "parked" THEN "cancelled" ELSE @,
            !.early = @ \/ (t.pc \in {"select", "parked"} /\ t.left > 0)]

\* Rotator.Stop: under r.lock, cancel and forget the context
Stop ==
  /\ phase = "ready"
  /\ IF cancel # Nil
       THEN /\ ctxDone' = ctxDone \cup {cancel}
            /\ runs' = [runs EXCEPT ![cancel] = CancelledRun(@)]
            /\ cleanups' = {IF t.ctx = cancel THEN CancelledCleanup(t) ELSE t :
                              t \in cleanups}
            /\ cancel' = Nil
       ELSE UNCHANGED <<ctxDone, runs, cleanups, cancel>>
  /\ ret' = NoRet
  /\ UNCHANGED <<cli, phase, nextKey, nctx, clientGen>>
  /\ UNCHANGED storeVars
  /\ UNCHANGED histVars
  /\ UNCHANGED regVars
  /\ UNCHANGED lockVars

\* rotateTask.run reaches its select
RunSelect(c) ==
  /\ phase = "ready"
  /\ c \in DOMAIN runs
  /\ runs[c].pc = "select"
  /\ \/ /\ Done(c)
        /\ runs' = [runs EXCEPT ![c].pc = "cancelled"]
     \/ /\ runs[c].tickReady
        /\ runs' = [runs EXCEPT ![c].pc = "tick", ![c].tickReady = FALSE]
     \/ /\ ~Done(c)
        /\ ~runs[c].tickReady
        /\ runs' = [runs EXCEPT ![c].pc = "parked"]
  /\ ret' = NoRet
  /\ UNCHANGED <<cli, phase, nextKey, cancel, nctx, ctxDone, cleanups,
                 clientGen>>
  /\ UNCHANGED storeVars
  /\ UNCHANGED histVars
  /\ UNCHANGED regVars
  /\ UNCHANGED lockVars

\* a run loop that returns and leaves its ticker running
RunExitKeepsTicker(c) ==
  /\ phase = "ready"
  /\ c \in DOMAIN runs
  /\ runs[c].pc = "cancelled"
  /\ runs' = [runs EXCEPT ![c] = [pc |-> "done", tickReady |-> FALSE, tick |-> 0,
                                  tickerStopped |-> FALSE, gen |-> NilKey]]
  /\ ret' = NoRet
  /\ UNCHANGED <<cli, phase, nextKey, cancel, nctx, ctxDone, cleanups,
                 clientGen>>
  /\ UNCHANGED storeVars
  /\ UNCHANGED histVars
  /\ UNCHANGED regVars
  /\ UNCHANGED lockVars

\* case <-rt.ctx.Done(): return, and the deferred ticker.Stop
RunExit(c) ==
  /\ phase = "ready"
  /\ c \in DOMAIN runs
  /\ runs[c].pc = "cancelled"
  /\ runs' = [runs EXCEPT ![c] = [pc |-> "done", tickReady |-> FALSE, tick |-> 0,
                                  tickerStopped |-> TRUE, gen |-> NilKey]]
  /\ ret' = NoRet
  /\ UNCHANGED <<cli, phase, nextKey, cancel, nctx, ctxDone, cleanups,
                 clientGen>>
  /\ UNCHANGED storeVars
  /\ UNCHANGED histVars
  /\ UNCHANGED regVars
  /\ UNCHANGED lockVars

\* case <-rt.rotate: Rotate's Generate succeeds
RunGenerate(c) ==
  /\ phase = "ready"
  /\ c \in DOMAIN runs
  /\ runs[c].pc = "tick"
  /\ nextKey < MaxKeys
  /\ nextKey' = nextKey + 1
  /\ runs' = [runs EXCEPT ![c].pc = "generated", ![c].gen = Generate(nextKey + 1)]
  /\ ret' = NoRet
  /\ UNCHANGED <<cli, phase, cancel, nctx, ctxDone, cleanups, clientGen>>
  /\ UNCHANGED storeVars
  /\ UNCHANGED histVars
  /\ UNCHANGED regVars
  /\ UNCHANGED lockVars

\* a loop that gives up after a failed rotation
RunGenerateFailStops(c) ==
  /\ phase = "ready"
  /\ c \in DOMAIN runs
  /\ runs[c].pc = "tick"
  /\ runs' = [runs EXCEPT ![c].pc = "cancelled"]
  /\ ret' = RotateFailRet("rotator")
  /\ UNCHANGED <<cli, phase, nextKey, cancel, nctx, ctxDone, cleanups, clientGen>>
  /\ UNCHANGED storeVars
  /\ UNCHANGED histVars
  /\ UNCHANGED regVars
  /\ UNCHANGED lockVars

\* case <-rt.rotate: Rotate's Generate fails; the error is logged and the
\* loop goes on
RunGenerateFail(c) ==
  /\ phase = "ready"
  /\ c \in DOMAIN runs
  /\ runs[c].pc = "tick"
  /\ runs' = [runs EXCEPT ![c].pc = "select"]
  /\ ret' = RotateFailRet("rotator")
  /\ UNCHANGED <<cli, phase, nextKey, cancel, nctx, ctxDone, cleanups, clientGen>>
  /\ UNCHANGED storeVars
  /\ UNCHANGED histVars
  /\ UNCHANGED regVars
  /\ UNCHANGED lockVars

\* a retirement for the key generated last
CleanupKidLatest(old) == nextKey

\* every retirement is handed the kid of the initial key
CleanupKidInitial(old) == 1

\* go rt.cleanup(old.KID(), ch, stop): the kid the retirement is for
CleanupKid(old) == KID(old)

\* rt.grace(): the time left on a timer made by time.NewTimer(r.grace)
NewTimer == Grace

\* the cleanup goroutine as go rt.cleanup(kid, ch, stop) creates it
NewCleanup(kid, c) ==
  [kid |-> kid, ctx |-> c, left |-> NewTimer, pc |-> "select",
   early |-> FALSE, called |-> FALSE]

\* Rotate's critical section, then the timer and the cleanup goroutine
RunCommit(c) ==
  /\ phase = "ready"
  /\ c \in DOMAIN runs
  /\ runs[c].pc = "generated"
  /\ RotateLocked(runs[c].gen)
  /\ Superseded
  /\ ret' = RotateRet(runs[c].gen, "rotator")
  /\ cleanups' = cleanups \cup {NewCleanup(CleanupKid(RotateOld), c)}
  /\ runs' = [runs EXCEPT ![c].pc = "select", ![c].gen = NilKey]
  /\ UNCHANGED <<cli, phase, nextKey, cancel, nctx, ctxDone, clientGen,
                 removedBy>>
  /\ UNCHANGED regVars
  /\ UNCHANGED lockVars

\* a timer that never delivers
TimerNeverReady(t) == FALSE

\* the timer's channel is ready
TimerReady(t) == t.left = 0

\* rotateTask.cleanup reaches its select
CleanupSelect(t) ==
  /\ t \in cleanups
  /\ t.pc = "select"
  /\ \/ /\ Done(t.ctx)
        /\ cleanups' = (cleanups \ {t}) \cup {[t EXCEPT !.pc = "cancelled"]}
     \/ /\ TimerReady(t)
        /\ cleanups' = (cleanups \ {t}) \cup {[t EXCEPT !.pc = "fired"]}
     \/ /\ ~Done(t.ctx)
        /\ ~TimerReady(t)
        /\ cleanups' = (cleanups \ {t}) \cup {[t EXCEPT !.pc = "parked"]}
  /\ ret' = NoRet
  /\ UNCHANGED <<cli, phase, nextKey, cancel, nctx, ctxDone, runs, clientGen>>
  /\ UNCHANGED storeVars
  /\ UNCHANGED histVars
  /\ UNCHANGED regVars
  /\ UNCHANGED lockVars

\* case <-ch: rt.keys.Delete(kid), then the deferred timer stop
CleanupDelete(t) ==
  /\ t \in cleanups
  /\ t.pc = "fired"
  /\ Delete(t.kid, "rotator")
  /\ UNCHANGED lockVars
  /\ cleanups' = (cleanups \ {t}) \cup
                   {[t EXCEPT !.pc = "done", !.called = TRUE, !.left = 0]}
  /\ UNCHANGED <<cli, phase, nextKey, cancel, nctx, ctxDone, runs, clientGen>>

\* case <-rt.ctx.Done(): return, leaving the key alone
CleanupExit(t) ==
  /\ t \in cleanups
  /\ t.pc = "cancelled"
  /\ cleanups' = (cleanups \ {t}) \cup {[t EXCEPT !.pc = "done", !.left = 0]}
  /\ ret' = NoRet
  /\ UNCHANGED <<cli, phase, nextKey, cancel, nctx, ctxDone, runs, clientGen>>
  /\ UNCHANGED storeVars
  /\ UNCHANGED histVars
  /\ UNCHANGED regVars
  /\ UNCHANGED lockVars

\* ------------------------------------------------------------------ clock
\* one minute passes for a ticker: when its interval is over it delivers a
\* tick, to the run goroutine if that is blocked in its select, else into
\* the channel's one-slot buffer
TickerAfterMinute(r) ==
  IF r.tickerStopped THEN r
  ELSE IF r.tick > 1 THEN [r EXCEPT !.tick = @ - 1]
  ELSE IF r.pc = "parked" THEN [r EXCEPT !.pc = "tick", !.tick = RotateInterval]
  ELSE [r EXCEPT !.tickReady = TRUE, !.tick = RotateInterval]

\* one minute passes for a grace timer: when it expires it releases the
\* cleanup goroutine if that is blocked in its select
TimerAfterMinute(t) ==
  IF t.left = 0 THEN t
  ELSE IF t.left > 1 THEN [t EXCEPT !.left = @ - 1]
  ELSE IF t.pc = "parked" THEN [t EXCEPT !.pc = "fired", !.left = 0]
  ELSE [t EXCEPT !.left = 0]

Running ==
  \/ \E c \in DOMAIN runs : ~runs[c].tickerStopped
  \/ \E t \in cleanups : t.left > 0

\* ages are counted up to the token expiry plus one minute
AgeCap == cli.Expires + 1

\* one minute passes
Advance ==
  /\ Running
  /\ runs' = [c \in DOMAIN runs |-> TickerAfterMinute(runs[c])]
  /\ cleanups' = {TimerAfterMinute(t) : t \in cleanups}
  /\ age' = [k \in KidSpace |->
               IF age[k] # NoTime /\ age[k] < AgeCap THEN age[k] + 1 ELSE age[k]]
  /\ ret' = NoRet
  /\ UNCHANGED <<cli, phase, nextKey, cancel, nctx, ctxDone, clientGen,
                 removedBy>>
  /\ UNCHANGED storeVars
  /\ UNCHANGED regVars
  /\ UNCHANGED lockVars

\* ------------------------------------------- the register-based Rotator
\* The build wired from CurrentKey, KeyStore and the Rotator that owns
\* Rotate: the keys live in an InMemoryKeyStore and the signing key in the
\* CurrentKey register.  It has no retirement ("TODO: handle cleanup").
ErrRotatorStarted == "the key rotator has already been started"
ErrRotatorStopped == "the key rotator has already been stopped"
ErrNoCurrentKey == "the current key has not been initialized"

\* the Key a successful Generate returns
NewKey(n) == [KID |-> n, Key |-> Generate(n).key]

\* Key.PublicKey: a copy with the public portion of the jwk key
KeyPublicKey(k) == [k EXCEPT !.Key = PublicKey(k.Key)]

\* a Load that reads the kid and the key material one after the other and
\* finds them from different Store calls
LoadTorn ==
  [k |-> IF currentKey = NoKey THEN NoKey
         ELSE [KID |-> currentKey.KID, Key |-> stored[1].Key],
   err |-> IF currentKey = NoKey THEN ErrNoCurrentKey ELSE ErrNil]

\* CurrentKey.Load
Load ==
  [k |-> currentKey,
   err |-> IF currentKey = NoKey THEN ErrNoCurrentKey ELSE ErrNil]

\* a Store that keeps the key a kid already has
StoreKeyKeepsFirst(keys, k) ==
  [kid \in DOMAIN keys \cup {k.KID} |->
     IF kid \in DOMAIN keys THEN keys[kid] ELSE k]

\* InMemoryKeyStore.Store: s.keys[k.KID] = k
StoreKey(keys, k) ==
  [kid \in DOMAIN keys \cup {k.KID} |-> IF kid = k.KID THEN k ELSE keys[kid]]

\* InMemoryKeyStore.Load
KeyStoreLoad(kid) ==
  [k |-> IF kid \in DOMAIN keyStore THEN keyStore[kid] ELSE NoKey,
   err |-> IF kid \in DOMAIN keyStore THEN ErrNil ELSE ErrNoSuchKey]

\* Rotator.unsafeStoreKey: the public key into the KeyStore, then the key
\* into the register
unsafeStoreKey(k) ==
  /\ keyStore' = StoreKey(keyStore, KeyPublicKey(k))
  /\ currentKey' = k
  /\ stored' = Append(stored, k)
  /\ storeLog' = Append(storeLog, [op |-> "Store", kid |-> k.KID,
                                   k |-> KeyPublicKey(k), by |-> "rotator"])
  /\ UNCHANGED <<loaders, keyGenerator>>

RegRet(op, err, key) ==
  [op |-> op, by |-> "register", kid |-> Nil, err |-> err, key |-> key]

\* fx wiring: ProvideCurrentKey, ProvideKeyStore and NewRotator
NewRegister ==
  /\ phase = "new"
  /\ phase' = "register"
  /\ ret' = NoRet
  /\ UNCHANGED <<cli, nextKey, clientGen>>
  /\ UNCHANGED storeVars
  /\ UNCHANGED rotatorVars
  /\ UNCHANGED histVars
  /\ UNCHANGED regVars
  /\ UNCHANGED lockVars

\* a Start that starts the run goroutine and rotates nothing
RegStartNoRotate ==
  /\ phase = "register"
  /\ IF cancel # Nil
       THEN /\ ret' = RegRet("Start", ErrRotatorStarted, Nil)
            /\ UNCHANGED <<nextKey, nctx, cancel, runs>>
       ELSE /\ nctx < MaxStarts
            /\ nextKey < MaxKeys
            /\ nextKey' = nextKey + 1
            /\ nctx' = nctx + 1
            /\ cancel' = nctx + 1
            /\ runs' = [c \in 1..(nctx + 1) |->
                          IF c = nctx + 1 THEN NewRun ELSE runs[c]]
            /\ ret' = RegRet("Start", ErrNil, nextKey + 1)
  /\ UNCHANGED <<cli, phase, ctxDone, cleanups, clientGen>>
  /\ UNCHANGED storeVars
  /\ UNCHANGED histVars
  /\ UNCHANGED regVars
  /\ UNCHANGED lockVars

\* Rotator.Start, Generate succeeding when it is reached: ErrRotatorStarted
\* if already started, else the initial key, a context, a ticker and the
\* run goroutine
RegStart ==
  /\ phase = "register"
  /\ IF cancel # Nil
       THEN /\ ret' = RegRet("Start", ErrRotatorStarted, Nil)
            /\ UNCHANGED <<nextKey, nctx, cancel, runs>>
            /\ UNCHANGED regVars
       ELSE /\ nctx < MaxStarts
            /\ nextKey < MaxKeys
            /\ nextKey' = nextKey + 1
            /\ unsafeStoreKey(NewKey(nextKey + 1))
            /\ nctx' = nctx + 1
            /\ cancel' = nctx + 1
            /\ runs' = [c \in 1..(nctx + 1) |->
                          IF c = nctx + 1 THEN NewRun ELSE runs[c]]
            /\ ret' = RegRet("Start", ErrNil, nextKey + 1)
  /\ UNCHANGED <<cli, phase, ctxDone, cleanups, clientGen>>
  /\ UNCHANGED storeVars
  /\ UNCHANGED histVars
  /\ UNCHANGED lockVars

\* Rotator.Start when Generate fails: err is overwritten by the result of
\* unsafeStoreKey(initialKey), which takes the public key of a Key that
\* holds no jwk key
RegStartGenerateFail ==
  /\ phase = "register"
  /\ cancel = Nil
  /\ phase' = "panicked"
  /\ ret' = NoRet
  /\ UNCHANGED <<cli, nextKey, clientGen>>
  /\ UNCHANGED storeVars
  /\ UNCHANGED rotatorVars
  /\ UNCHANGED histVars
  /\ UNCHANGED regVars
  /\ UNCHANGED lockVars

\* a Stop that reports nothing when there is nothing to stop
RegStopSilent ==
  /\ phase = "register"
  /\ IF cancel # Nil
       THEN /\ ctxDone' = ctxDone \cup {cancel}
            /\ runs' = [runs EXCEPT ![cancel] = CancelledRun(@)]
            /\ cancel' = Nil
       ELSE UNCHANGED <<ctxDone, runs, cancel>>
  /\ ret' = RegRet("Stop", ErrNil, Nil)
  /\ UNCHANGED <<cli, phase, nextKey, nctx, cleanups, clientGen>>
  /\ UNCHANGED storeVars
  /\ UNCHANGED histVars
  /\ UNCHANGED regVars
  /\ UNCHANGED lockVars

\* Rotator.Stop: cancel and forget the context, or ErrRotatorStopped
RegStop ==
  /\ phase = "register"
  /\ IF cancel # Nil
       THEN /\ ctxDone' = ctxDone \cup {cancel}
            /\ runs' = [runs EXCEPT ![cancel] = CancelledRun(@)]
            /\ cancel' = Nil
            /\ ret' = RegRet("Stop", ErrNil, Nil)
       ELSE /\ ret' = RegRet("Stop", ErrRotatorStopped, Nil)
            /\ UNCHANGED <<ctxDone, runs, cancel>>
  /\ UNCHANGED <<cli, phase, nextKey, nctx, cleanups, clientGen>>
  /\ UNCHANGED storeVars
  /\ UNCHANGED histVars
  /\ UNCHANGED regVars
  /\ UNCHANGED lockVars

\* rotateTask.run reaches its select
RegRunSelect(c) ==
  /\ phase = "register"
  /\ c \in DOMAIN runs
  /\ runs[c].pc = "select"
  /\ \/ /\ Done(c)
        /\ runs' = [runs EXCEPT ![c].pc = "cancelled"]
     \/ /\ runs[c].tickReady
        /\ runs' = [runs EXCEPT ![c].pc = "tick", ![c].tickReady = FALSE]
     \/ /\ ~Done(c)
        /\ ~runs[c].tickReady
        /\ runs' = [runs EXCEPT ![c].pc = "parked"]
  /\ ret' = NoRet
  /\ UNCHANGED <<cli, phase, nextKey, cancel, nctx, ctxDone, cleanups,
                 clientGen>>
  /\ UNCHANGED storeVars
  /\ UNCHANGED histVars
  /\ UNCHANGED regVars
  /\ UNCHANGED lockVars

\* case <-rt.ctx.Done(): return, and the deferred ticker.Stop
RegRunExit(c) ==
  /\ phase = "register"
  /\ c \in DOMAIN runs
  /\ runs[c].pc = "cancelled"
  /\ runs' = [runs EXCEPT ![c] = [pc |-> "done", tickReady |-> FALSE, tick |-> 0,
                                  tickerStopped |-> TRUE, gen |-> NilKey]]
  /\ ret' = NoRet
  /\ UNCHANGED <<cli, phase, nextKey, cancel, nctx, ctxDone, cleanups,
                 clientGen>>
  /\ UNCHANGED storeVars
  /\ UNCHANGED histVars
  /\ UNCHANGED regVars
  /\ UNCHANGED lockVars

\* case <-rt.ch: Rotator.Rotate, its Generate succeeds
RegRunGenerate(c) ==
  /\ phase = "register"
  /\ c \in DOMAIN runs
  /\ runs[c].pc = "tick"
  /\ nextKey < MaxKeys
  /\ nextKey' = nextKey + 1
  /\ runs' = [runs EXCEPT ![c].pc = "generated", ![c].gen = NewKey(nextKey + 1)]
  /\ ret' = NoRet
  /\ UNCHANGED <<cli, phase, cancel, nctx, ctxDone, cleanups, clientGen>>
  /\ UNCHANGED storeVars
  /\ UNCHANGED histVars
  /\ UNCHANGED regVars
  /\ UNCHANGED lockVars

\* case <-rt.ch: Rotator.Rotate, its Generate fails; the error is logged
RegRunGenerateFail(c) ==
  /\ phase = "register"
  /\ c \in DOMAIN runs
  /\ runs[c].pc = "tick"
  /\ runs' = [runs EXCEPT ![c].pc = "select"]
  /\ ret' = RegRet("Rotate", ErrGenerate, Nil)
  /\ UNCHANGED <<cli, phase, nextKey, cancel, nctx, ctxDone, cleanups, clientGen>>
  /\ UNCHANGED storeVars
  /\ UNCHANGED histVars
  /\ UNCHANGED regVars
  /\ UNCHANGED lockVars

\* Rotator.Rotate under r.lock: unsafeStoreKey(k)
RegRunStore(c) ==
  /\ phase = "register"
  /\ c \in DOMAIN runs
  /\ runs[c].pc = "generated"
  /\ unsafeStoreKey(runs[c].gen)
  /\ runs' = [runs EXCEPT ![c].pc = "select", ![c].gen = NilKey]
  /\ ret' = RegRet("Rotate", ErrNil, runs[c].gen.KID)
  /\ UNCHANGED <<cli, phase, nextKey, cancel, nctx, ctxDone, cleanups, clientGen>>
  /\ UNCHANGED storeVars
  /\ UNCHANGED histVars
  /\ UNCHANGED lockVars

\* a failed unsafeStoreKey that puts the key into the register all the same
RegRunStoreFailPublishes(c, why) ==
  /\ phase = "register"
  /\ c \in DOMAIN runs
  /\ runs[c].pc = "generated"
  /\ currentKey' = runs[c].gen
  /\ stored' = Append(stored, runs[c].gen)
  /\ runs' = [runs EXCEPT ![c].pc = "select", ![c].gen = NilKey]
  /\ ret' = RegRet("Rotate", why, Nil)
  /\ UNCHANGED <<cli, phase, nextKey, cancel, nctx, ctxDone, cleanups, clientGen>>
  /\ UNCHANGED <<keyStore, storeLog, loaders, keyGenerator>>
  /\ UNCHANGED storeVars
  /\ UNCHANGED histVars
  /\ UNCHANGED lockVars

\* Rotator.Rotate under r.lock when unsafeStoreKey fails, in k.PublicKey()
\* or in the Store of a KeyStore that can fail: currentKey.Store is skipped
\* and the error is returned and logged
RegRunStoreFail(c, why) ==
  /\ phase = "register"
  /\ c \in DOMAIN runs
  /\ runs[c].pc = "generated"
  /\ runs' = [runs EXCEPT ![c].pc = "select", ![c].gen = NilKey]
  /\ ret' = RegRet("Rotate", why, Nil)
  /\ UNCHANGED <<cli, phase, nextKey, cancel, nctx, ctxDone, cleanups, clientGen>>
  /\ UNCHANGED storeVars
  /\ UNCHANGED histVars
  /\ UNCHANGED regVars
  /\ UNCHANGED lockVars

\* a caller (the Signer) enters CurrentKey.Load; from is the number of
\* Store calls completed before
LoadCall(p) ==
  /\ phase = "register"
  /\ loaders[p].pc = "idle"
  /\ loaders' = [loaders EXCEPT ![p] = [IdleLoader EXCEPT !.pc = "called",
                                                          !.from = Len(stored)]]
  /\ ret' = NoRet
  /\ UNCHANGED <<cli, phase, nextKey, clientGen, currentKey, keyStore, stored,
                 storeLog,
                 keyGenerator>>
  /\ UNCHANGED storeVars
  /\ UNCHANGED rotatorVars
  /\ UNCHANGED histVars
  /\ UNCHANGED lockVars

\* CurrentKey.Load: ck.current.Load().(Key) and the result it returns
LoadRead(p) ==
  /\ phase = "register"
  /\ loaders[p].pc = "called"
  /\ loaders' = [loaders EXCEPT ![p].pc = "read", ![p].k = Load.k,
                                ![p].err = Load.err]
  /\ ret' = NoRet
  /\ UNCHANGED <<cli, phase, nextKey, clientGen, currentKey, keyStore, stored,
                 storeLog,
                 keyGenerator>>
  /\ UNCHANGED storeVars
  /\ UNCHANGED rotatorVars
  /\ UNCHANGED histVars
  /\ UNCHANGED lockVars

\* the caller has used the result
LoadReturn(p) ==
  /\ phase = "register"
  /\ loaders[p].pc = "read"
  /\ loaders' = [loaders EXCEPT ![p] = IdleLoader]
  /\ ret' = NoRet
  /\ UNCHANGED <<cli, phase, nextKey, clientGen, currentKey, keyStore, stored,
                 storeLog,
                 keyGenerator>>
  /\ UNCHANGED storeVars
  /\ UNCHANGED rotatorVars
  /\ UNCHANGED histVars
  /\ UNCHANGED lockVars

\* the register-based build: the Rotator of CurrentKey and KeyStore
NextReg ==
  \/ NewRegister
  \/ RegStart
  \/ RegStartGenerateFail
  \/ RegStop
  \/ \E c \in 1..MaxStarts : RegRunSelect(c)
  \/ \E c \in 1..MaxStarts : RegRunExit(c)
  \/ \E c \in 1..MaxStarts : RegRunGenerate(c)
  \/ \E c \in 1..MaxStarts : RegRunGenerateFail(c)
  \/ \E c \in 1..MaxStarts : RegRunStore(c)
  \/ \E c \in 1..MaxStarts, why \in {ErrPublicKey, ErrStore} : RegRunStoreFail(c, why)
  \/ Advance

SpecReg == Init /\ [][NextReg]_vars

\* ----------------------------------------------------------- KeyGenerator

ErrUnsupported == "unsupported key parameters"
\* the zero jwa.KeyAlgorithm and the nil elliptic.Curve
NoAlg == ""
NoCurve == ""

\* the key parameters a command line can carry: the enum values of CLI and
\* values outside them, which a CLI built in code can hold
KeyTypes == {"EC", "RSA", "OKP"}
KeyCurves == {"P-256", "P-384", "P-521", "P-224"}
KeySizes == -1..MaxKeySize

\* a NewKeyGenerator that takes every RSA key size
NewKeyGeneratorAnySize(c) ==
  CASE c.KeyType = "EC" /\ c.KeyCurve = "P-256" ->
         [made |-> TRUE, ec |-> TRUE, curve |-> "P-256", bits |-> 0,
          alg |-> "ES256", err |-> ErrNil]
    [] c.KeyType = "EC" /\ c.KeyCurve = "P-384" ->
         [made |-> TRUE, ec |-> TRUE, curve |-> "P-384", bits |-> 0,
          alg |-> "ES384", err |-> ErrNil]
    [] c.KeyType = "EC" /\ c.KeyCurve = "P-521" ->
         [made |-> TRUE, ec |-> TRUE, curve |-> "P-521", bits |-> 0,
          alg |-> "ES512", err |-> ErrNil]
    [] c.KeyType = "RSA" ->
         [made |-> TRUE, ec |-> FALSE, curve |-> NoCurve, bits |-> c.KeySize,
          alg |-> "RS256", err |-> ErrNil]
    [] OTHER ->
         [made |-> TRUE, ec |-> FALSE, curve |-> NoCurve, bits |-> 0,
          alg |-> NoAlg, err |-> ErrUnsupported]

\* NewKeyGenerator: the switch over the key parameters, first case first
NewKeyGenerator(c) ==
  CASE c.KeyType = "EC" /\ c.KeyCurve = "P-256" ->
         [made |-> TRUE, ec |-> TRUE, curve |-> "P-256", bits |-> 0,
          alg |-> "ES256", err |-> ErrNil]
    [] c.KeyType = "EC" /\ c.KeyCurve = "P-384" ->
         [made |-> TRUE, ec |-> TRUE, curve |-> "P-384", bits |-> 0,
          alg |-> "ES384", err |-> ErrNil]
    [] c.KeyType = "EC" /\ c.KeyCurve = "P-521" ->
         [made |-> TRUE, ec |-> TRUE, curve |-> "P-521", bits |-> 0,
          alg |-> "ES512", err |-> ErrNil]
    [] c.KeyType = "RSA" /\ c.KeySize > 0 ->
         [made |-> TRUE, ec |-> FALSE, curve |-> NoCurve, bits |-> c.KeySize,
          alg |-> "RS256", err |-> ErrNil]
    [] OTHER ->
         [made |-> TRUE, ec |-> FALSE, curve |-> NoCurve, bits |-> 0,
          alg |-> NoAlg, err |-> ErrUnsupported]

\* the state before construction, for every command line
InitGenerator ==
  /\ cli \in [KeyRotate : 1..MaxRotate, Expires : 0..MaxExpires,
              KeyType : KeyTypes, KeySize : KeySizes, KeyCurve : KeyCurves]
  /\ phase = "new"
  /\ generatedKeys = <<>>
  /\ current = NilKey
  /\ publicSet = <<>>
  /\ publicSetJWK = NilBytes
  /\ nextKey = 0
  /\ cancel = Nil
  /\ nctx = 0
  /\ ctxDone = {}
  /\ runs = <<>>
  /\ cleanups = {}
  /\ clientGen = [p \in 1..MaxCallers |-> NilKey]
  /\ ret = NoRet
  /\ age = [k \in KidSpace |-> NoTime]
  /\ removedBy = [k \in KidSpace |-> ""]
  /\ currentKey = NoKey
  /\ keyStore = <<>>
  /\ stored = <<>>
  /\ storeLog = <<>>
  /\ loaders = [p \in 1..MaxCallers |-> IdleLoader]
  /\ keyGenerator = NoGenerator
  /\ lock = Unlocked
  /\ calls = [p \in 1..MaxCallers |-> IdleCall]

\* the application constructs its KeyGenerator
Construct ==
  /\ phase = "new"
  /\ keyGenerator' = NewKeyGenerator(cli)
  /\ phase' = "generator"
  /\ ret' = [NoRet EXCEPT !.op = "NewKeyGenerator", !.by = "generator",
                          !.err = NewKeyGenerator(cli).err]
  /\ UNCHANGED <<cli, nextKey, clientGen, currentKey, keyStore, stored, storeLog,
                 loaders>>
  /\ UNCHANGED storeVars
  /\ UNCHANGED rotatorVars
  /\ UNCHANGED histVars
  /\ UNCHANGED lockVars

\* KeyGenerator.Generate on a generator whose construction succeeded: a
\* constructor error keeps the application, and every caller of Generate,
\* from being built
GeneratorGenerate ==
  /\ phase = "generator"
  /\ keyGenerator.err = ErrNil
  /\ nextKey < MaxKeys
  /\ nextKey' = nextKey + 1
  /\ ret' = [NoRet EXCEPT !.op = "Generate", !.by = "generator",
                          !.kid = KID(Generate(nextKey + 1)),
                          !.key = keyGenerator.alg]
  /\ UNCHANGED <<cli, phase, clientGen>>
  /\ UNCHANGED regVars
  /\ UNCHANGED lockVars
  /\ UNCHANGED storeVars
  /\ UNCHANGED rotatorVars
  /\ UNCHANGED histVars

\* KeyGenerator.Generate fails in generateRaw or jwk.Import
GeneratorGenerateFail ==
  /\ phase = "generator"
  /\ keyGenerator.err = ErrNil
  /\ ret' = [NoRet EXCEPT !.op = "Generate", !.by = "generator",
                          !.err = ErrGenerate]
  /\ UNCHANGED <<cli, phase, nextKey, clientGen>>
  /\ UNCHANGED regVars
  /\ UNCHANGED lockVars
  /\ UNCHANGED storeVars
  /\ UNCHANGED rotatorVars
  /\ UNCHANGED histVars

NextGenerator ==
  \/ Construct
  \/ GeneratorGenerate
  \/ GeneratorGenerateFail

SpecGenerator == InitGenerator /\ [][NextGenerator]_vars

\* ------------------------------------------------------------ IDGenerator

\* base64 of the sixteen zero bytes make([]byte, size) starts with: the id
\* when io.ReadFull read nothing
ZeroKid == MaxKeys + 1

\* IDGenerator.Generate: the encoded buffer, whether io.ReadFull filled it
\* (read) from the n-th draw or failed; the error of ReadFull is dropped
IDGenerate(read, n) == IF read THEN n ELSE ZeroKid

\* KeyGenerator.Generate on success, with the kid the IDGenerator returned
\* and the key material of the n-th draw
GenerateID(id, n) ==
  LET key == [kid |-> id, pub |-> n, priv |-> n]
  IN  [kid |-> id, key |-> key, publicKey |-> PublicKey(key),
       publicJWK |-> MarshalKey(PublicKey(key))]

\* Rotate, first half, when the random source fails under the IDGenerator
\* and works again for generateRaw
ClientGenerateShortID(p) ==
  /\ phase = "ready"
  /\ clientGen[p] = NilKey
  /\ nextKey < MaxKeys
  /\ nextKey' = nextKey + 1
  /\ clientGen' = [clientGen EXCEPT
                     ![p] = GenerateID(IDGenerate(FALSE, nextKey + 1), nextKey + 1)]
  /\ ret' = NoRet
  /\ UNCHANGED <<cli, phase>>
  /\ UNCHANGED storeVars
  /\ UNCHANGED rotatorVars
  /\ UNCHANGED histVars
  /\ UNCHANGED regVars
  /\ UNCHANGED lockVars

\* ------------------------------------------------- Keys calls, step by step
\* sync.RWMutex: Lock returns when nobody holds the mutex; RLock returns
\* when no writer holds it and none is blocked in Lock ("concurrent calls
\* to RLock will block until the writer has acquired (and released) the
\* lock")
CanLock == lock.w = Nil /\ lock.r = {}
WriterWaiting == \E p \in 1..MaxCallers : calls[p].pc = "lock"
CanRLock == lock.w = Nil /\ ~WriterWaiting

\* a Rotate that takes keys.lock before it generates
CallRotateLockFirst(p) ==
  /\ phase = "ready"
  /\ calls[p] = IdleCall
  /\ CanLock
  /\ lock' = [lock EXCEPT !.w = p]
  /\ calls' = [calls EXCEPT ![p] = [IdleCall EXCEPT !.op = "Rotate",
                                                   !.pc = "generate"]]
  /\ ret' = NoRet
  /\ UNCHANGED <<cli, phase, nextKey, clientGen>>
  /\ UNCHANGED storeVars
  /\ UNCHANGED rotatorVars
  /\ UNCHANGED histVars
  /\ UNCHANGED regVars

\* Keys.Rotate is called: keys.keyGenerator.Generate() starts
CallRotate(p) ==
  /\ phase = "ready"
  /\ calls[p] = IdleCall
  /\ calls' = [calls EXCEPT ![p] = [IdleCall EXCEPT !.op = "Rotate",
                                                   !.pc = "generate"]]
  /\ ret' = NoRet
  /\ UNCHANGED <<cli, phase, nextKey, clientGen, lock>>
  /\ UNCHANGED storeVars
  /\ UNCHANGED rotatorVars
  /\ UNCHANGED histVars
  /\ UNCHANGED regVars

\* Generate returns a key; Rotate logs and calls keys.lock.Lock()
CallRotateGenerate(p) ==
  /\ calls[p].op = "Rotate"
  /\ calls[p].pc = "generate"
  /\ nextKey < MaxKeys
  /\ nextKey' = nextKey + 1
  /\ clientGen' = [clientGen EXCEPT ![p] = Generate(nextKey + 1)]
  /\ calls' = [calls EXCEPT ![p].pc = "lock"]
  /\ ret' = NoRet
  /\ UNCHANGED <<cli, phase, lock>>
  /\ UNCHANGED storeVars
  /\ UNCHANGED rotatorVars
  /\ UNCHANGED histVars
  /\ UNCHANGED regVars

\* Generate returns an error, and Rotate returns it
CallRotateGenerateFail(p) ==
  /\ calls[p].op = "Rotate"
  /\ calls[p].pc = "generate"
  /\ calls' = [calls EXCEPT ![p] = IdleCall]
  /\ ret' = RotateFailRet("client")
  /\ UNCHANGED <<cli, phase, nextKey, clientGen, lock>>
  /\ UNCHANGED storeVars
  /\ UNCHANGED rotatorVars
  /\ UNCHANGED histVars
  /\ UNCHANGED regVars

\* keys.lock.Lock() returns, in Rotate or in Delete
CallLock(p) ==
  /\ calls[p].pc = "lock"
  /\ CanLock
  /\ lock' = [lock EXCEPT !.w = p]
  /\ calls' = [calls EXCEPT ![p].pc = "locked"]
  /\ ret' = NoRet
  /\ UNCHANGED <<cli, phase, nextKey, clientGen>>
  /\ UNCHANGED storeVars
  /\ UNCHANGED rotatorVars
  /\ UNCHANGED histVars
  /\ UNCHANGED regVars

\* Rotate under the lock: unsafeAddKey, the swap, the deferred Unlock and
\* the return
CallRotateCommit(p) ==
  /\ calls[p].op = "Rotate"
  /\ calls[p].pc = "locked"
  /\ RotateLocked(clientGen[p])
  /\ Superseded
  /\ ret' = RotateRet(clientGen[p], "client")
  /\ clientGen' = [clientGen EXCEPT ![p] = NilKey]
  /\ lock' = [lock EXCEPT !.w = Nil]
  /\ calls' = [calls EXCEPT ![p] = IdleCall]
  /\ UNCHANGED <<cli, phase, nextKey, removedBy>>
  /\ UNCHANGED rotatorVars
  /\ UNCHANGED regVars

\* Keys.Delete(kid) is called: the deferred Unlock is set up and
\* keys.lock.Lock() is called
CallDelete(p, kid) ==
  /\ phase = "ready"
  /\ calls[p] = IdleCall
  /\ calls' = [calls EXCEPT ![p] = [IdleCall EXCEPT !.op = "Delete",
                                                   !.pc = "lock",
                                                   !.kid = kid]]
  /\ ret' = NoRet
  /\ UNCHANGED <<cli, phase, nextKey, clientGen, lock>>
  /\ UNCHANGED storeVars
  /\ UNCHANGED rotatorVars
  /\ UNCHANGED histVars
  /\ UNCHANGED regVars

\* Delete under the lock, the deferred Unlock and the return
CallDeleteCommit(p) ==
  /\ calls[p].op = "Delete"
  /\ calls[p].pc = "locked"
  /\ Delete(calls[p].kid, "client")
  /\ lock' = [lock EXCEPT !.w = Nil]
  /\ calls' = [calls EXCEPT ![p] = IdleCall]
  /\ UNCHANGED <<cli, phase, nextKey, clientGen>>
  /\ UNCHANGED rotatorVars

\* Keys.Get(kid): RLock, the map lookup, RUnlock
CallGet(p, kid) ==
  /\ phase = "ready"
  /\ calls[p] = IdleCall
  /\ CanRLock
  /\ ret' = [NoRet EXCEPT !.op = "Get", !.by = "client", !.kid = kid,
                          !.key = IF Get(kid).exists THEN KID(Get(kid).gk)
                                  ELSE Nil]
  /\ UNCHANGED <<cli, phase, nextKey, clientGen>>
  /\ UNCHANGED storeVars
  /\ UNCHANGED rotatorVars
  /\ UNCHANGED histVars
  /\ UNCHANGED regVars
  /\ UNCHANGED lockVars

\* Keys.Current(): RLock, the pointer read, RUnlock
CallCurrent(p) ==
  /\ phase = "ready"
  /\ calls[p] = IdleCall
  /\ CanRLock
  /\ ret' = [NoRet EXCEPT !.op = "Current", !.by = "client",
                          !.key = KID(Current)]
  /\ UNCHANGED <<cli, phase, nextKey, clientGen>>
  /\ UNCHANGED storeVars
  /\ UNCHANGED rotatorVars
  /\ UNCHANGED histVars
  /\ UNCHANGED regVars
  /\ UNCHANGED lockVars

\* Keys.WriteTo(dst): RLock, then dst.Write(keys.publicSetJWK) is called
CallWriteTo(p) ==
  /\ phase = "ready"
  /\ calls[p] = IdleCall
  /\ CanRLock
  /\ lock' = [lock EXCEPT !.r = @ \cup {p}]
  /\ calls' = [calls EXCEPT ![p] = [IdleCall EXCEPT !.op = "WriteTo",
                                                   !.pc = "write",
                                                   !.bytes = WriteTo]]
  /\ ret' = NoRet
  /\ UNCHANGED <<cli, phase, nextKey, clientGen>>
  /\ UNCHANGED storeVars
  /\ UNCHANGED rotatorVars
  /\ UNCHANGED histVars
  /\ UNCHANGED regVars

\* dst.Write returns, however long the destination took; RUnlock and return
CallWriteToDone(p) ==
  /\ calls[p].op = "WriteTo"
  /\ calls[p].pc = "write"
  /\ lock' = [lock EXCEPT !.r = @ \ {p}]
  /\ calls' = [calls EXCEPT ![p] = IdleCall]
  /\ ret' = [NoRet EXCEPT !.op = "WriteTo", !.by = "client"]
  /\ UNCHANGED <<cli, phase, nextKey, clientGen>>
  /\ UNCHANGED storeVars
  /\ UNCHANGED rotatorVars
  /\ UNCHANGED histVars
  /\ UNCHANGED regVars

\* the protected header and the signing key jwt.Sign is given, kid taken
\* from the key that is current when the header is built
SignWithReread(gk) == [kid |-> KID(Current), key |-> gk.key.priv]

\* buildProtectedHeaders and WithSigningKey for the key Sign read: the kid
\* in the protected header and the private parameter jwt.Sign signs with
SignWith(gk) == [kid |-> KID(gk), key |-> gk.key.priv]

\* Signer.Sign: currentKey := s.keys.Current()
CallSign(p) ==
  /\ phase = "ready"
  /\ calls[p] = IdleCall
  /\ CanRLock
  /\ calls' = [calls EXCEPT ![p] = [IdleCall EXCEPT !.op = "Sign",
                                                   !.pc = "sign",
                                                   !.gk = Current]]
  /\ ret' = NoRet
  /\ UNCHANGED <<cli, phase, nextKey, clientGen, lock>>
  /\ UNCHANGED storeVars
  /\ UNCHANGED rotatorVars
  /\ UNCHANGED histVars
  /\ UNCHANGED regVars

\* Signer.Sign: the headers, jwt.Sign and the return
CallSignDone(p) ==
  /\ calls[p].op = "Sign"
  /\ calls[p].pc = "sign"
  /\ calls' = [calls EXCEPT ![p] = IdleCall]
  /\ ret' = [op |-> "Sign", by |-> "signer", kid |-> SignWith(calls[p].gk).kid,
             err |-> ErrNil, key |-> SignWith(calls[p].gk).key]
  /\ UNCHANGED <<cli, phase, nextKey, clientGen, lock>>
  /\ UNCHANGED storeVars
  /\ UNCHANGED rotatorVars
  /\ UNCHANGED histVars
  /\ UNCHANGED regVars

\* Signer.Sign: jwt.Sign returns an error
CallSignFail(p) ==
  /\ calls[p].op = "Sign"
  /\ calls[p].pc = "sign"
  /\ calls' = [calls EXCEPT ![p] = IdleCall]
  /\ ret' = [op |-> "Sign", by |-> "signer", kid |-> Nil, err |-> ErrSign,
             key |-> Nil]
  /\ UNCHANGED <<cli, phase, nextKey, clientGen, lock>>
  /\ UNCHANGED storeVars
  /\ UNCHANGED rotatorVars
  /\ UNCHANGED histVars
  /\ UNCHANGED regVars

\* the Keys type under callers whose calls interleave at the lock
NextCalls ==
  \/ NewKeysOk
  \/ NewKeysFail
  \/ \E p \in 1..MaxCallers : CallRotate(p)
  \/ \E p \in 1..MaxCallers : CallRotateGenerate(p)
  \/ \E p \in 1..MaxCallers : CallRotateGenerateFail(p)
  \/ \E p \in 1..MaxCallers : CallLock(p)
  \/ \E p \in 1..MaxCallers : CallRotateCommit(p)
  \/ \E p \in 1..MaxCallers, kid \in KidSpace : CallDelete(p, kid)
  \/ \E p \in 1..MaxCallers : CallDeleteCommit(p)
  \/ \E p \in 1..MaxCallers, kid \in KidSpace : CallGet(p, kid)
  \/ \E p \in 1..MaxCallers : CallCurrent(p)
  \/ \E p \in 1..MaxCallers : CallWriteTo(p)
  \/ \E p \in 1..MaxCallers : CallWriteToDone(p)
  \/ \E p \in 1..MaxCallers : CallSign(p)
  \/ \E p \in 1..MaxCallers : CallSignDone(p)
  \/ \E p \in 1..MaxCallers : CallSignFail(p)

SpecCalls == Init /\ [][NextCalls]_vars

\* ------------------------------------------------------------------ Signer
\* a Signer that signs whatever Load returned
SignedAlways(l) == [kid |-> Nil, key |-> Nil, err |-> ErrNil]

\* Signer.SignToken and Signer.SignPayload after Load returned l, when the
\* jwx Sign they reach succeeds: the kid in the protected header and the
\* private parameter the signature is made with; nothing on a Load error
Signed(l) ==
  IF l.err = ErrNil
    THEN [kid |-> l.k.KID, key |-> l.k.Key.priv, err |-> ErrNil]
    ELSE [kid |-> Nil, key |-> Nil, err |-> l.err]

\* SignToken returns: the Load it began with was made by LoadCall and
\* LoadRead
SignToken(p) ==
  /\ phase = "register"
  /\ loaders[p].pc = "read"
  /\ loaders' = [loaders EXCEPT ![p] = IdleLoader]
  /\ ret' = [op |-> "SignToken", by |-> "signer", kid |-> Signed(loaders[p]).kid,
             err |-> Signed(loaders[p]).err, key |-> Signed(loaders[p]).key]
  /\ UNCHANGED <<cli, phase, nextKey, clientGen, currentKey, keyStore, stored,
                 storeLog,
                 keyGenerator>>
  /\ UNCHANGED storeVars
  /\ UNCHANGED rotatorVars
  /\ UNCHANGED histVars
  /\ UNCHANGED lockVars

\* SignPayload returns
SignPayload(p) ==
  /\ phase = "register"
  /\ loaders[p].pc = "read"
  /\ loaders' = [loaders EXCEPT ![p] = IdleLoader]
  /\ ret' = [op |-> "SignPayload", by |-> "signer", kid |-> Signed(loaders[p]).kid,
             err |-> Signed(loaders[p]).err, key |-> Signed(loaders[p]).key]
  /\ UNCHANGED <<cli, phase, nextKey, clientGen, currentKey, keyStore, stored,
                 storeLog,
                 keyGenerator>>
  /\ UNCHANGED storeVars
  /\ UNCHANGED rotatorVars
  /\ UNCHANGED histVars
  /\ UNCHANGED lockVars

\* SignToken or SignPayload returns the error of the jwx Sign
SignFail(p) ==
  /\ phase = "register"
  /\ loaders[p].pc = "read"
  /\ loaders[p].err = ErrNil
  /\ loaders' = [loaders EXCEPT ![p] = IdleLoader]
  /\ ret' = [op |-> "Sign", by |-> "signer", kid |-> Nil, err |-> ErrSign,
             key |-> Nil]
  /\ UNCHANGED <<cli, phase, nextKey, clientGen, currentKey, keyStore, stored,
                 storeLog,
                 keyGenerator>>
  /\ UNCHANGED storeVars
  /\ UNCHANGED rotatorVars
  /\ UNCHANGED histVars
  /\ UNCHANGED lockVars

\* ------------------------------------------- the KeyStore and its callers
\* InMemoryKeyStore under callers of its four methods, each of which holds
\* s.lock for its whole access to the map, and the register-based Rotator
\* with unsafeStoreKey taken one call at a time: keyStore.Store, then
\* currentKey.Store.

\* the Keys a caller passes to Store: for each kid the public key that was
\* generated under it and another public key of the same kid
StoreArgs ==
  {[KID |-> kid, Key |-> [kid |-> kid, pub |-> IF own THEN kid ELSE MaxKeys + 1,
                          priv |-> Nil]] :
     kid \in Kids, own \in BOOLEAN}

\* the process has a KeyStore: wired, with Start possibly inside
\* unsafeStoreKey
HasStore == phase \in {"register", "starting"}

\* r.lock is free: neither Start nor Rotate is inside unsafeStoreKey
RotatorLockFree ==
  /\ phase # "starting"
  /\ \A c \in DOMAIN runs : runs[c].pc # "stored"

\* the writes the callers (not the Rotator) have made
CallerWrites == Len(SelectSeq(storeLog, LAMBDA e : e.by = "client"))

KeyStoreRet(op, kid, err, k, ks) ==
  [op |-> op, by |-> "client", kid |-> kid, err |-> err, key |-> Nil,
   k |-> k, ks |-> ks]

\* InMemoryKeyStore.Delete: the map after the call
DeleteKey(keys, kid) == [x \in DOMAIN keys \ {kid} |-> keys[x]]

\* InMemoryKeyStore.Delete: the error it returns
DeleteKeyErr(keys, kid) == IF kid \in DOMAIN keys THEN ErrNil ELSE ErrNoSuchKey

\* InMemoryKeyStore.LoadAll: the keys of the map, in no particular order
LoadAll == {keyStore[kid] : kid \in DOMAIN keyStore}

\* a caller's InMemoryKeyStore.Store(k)
KeyStoreStore(k) ==
  /\ HasStore
  /\ CallerWrites < MaxOps
  /\ keyStore' = StoreKey(keyStore, k)
  /\ storeLog' = Append(storeLog, [op |-> "Store", kid |-> k.KID, k |-> k,
                                   by |-> "client"])
  /\ ret' = KeyStoreRet("KeyStore.Store", k.KID, ErrNil, k, {})
  /\ UNCHANGED <<cli, phase, nextKey, clientGen, currentKey, stored, loaders,
                 keyGenerator>>
  /\ UNCHANGED storeVars
  /\ UNCHANGED rotatorVars
  /\ UNCHANGED histVars
  /\ UNCHANGED lockVars

\* a caller's InMemoryKeyStore.Load(kid)
KeyStoreLoadCall(kid) ==
  /\ HasStore
  /\ ret' = KeyStoreRet("KeyStore.Load", kid, KeyStoreLoad(kid).err,
                        KeyStoreLoad(kid).k, {})
  /\ UNCHANGED <<cli, phase, nextKey, clientGen>>
  /\ UNCHANGED regVars
  /\ UNCHANGED storeVars
  /\ UNCHANGED rotatorVars
  /\ UNCHANGED histVars
  /\ UNCHANGED lockVars

\* a caller's InMemoryKeyStore.LoadAll()
KeyStoreLoadAll ==
  /\ HasStore
  /\ ret' = KeyStoreRet("KeyStore.LoadAll", Nil, ErrNil, NoKey, LoadAll)
  /\ UNCHANGED <<cli, phase, nextKey, clientGen>>
  /\ UNCHANGED regVars
  /\ UNCHANGED storeVars
  /\ UNCHANGED rotatorVars
  /\ UNCHANGED histVars
  /\ UNCHANGED lockVars

\* a caller's InMemoryKeyStore.Delete(kid)
KeyStoreDelete(kid) ==
  /\ HasStore
  /\ CallerWrites < MaxOps
  /\ keyStore' = DeleteKey(keyStore, kid)
  /\ storeLog' = Append(storeLog, [op |-> "Delete", kid |-> kid, k |-> NoKey,
                                   by |-> "client"])
  /\ ret' = KeyStoreRet("KeyStore.Delete", kid, DeleteKeyErr(keyStore, kid),
                        NoKey, {})
  /\ UNCHANGED <<cli, phase, nextKey, clientGen, currentKey, stored, loaders,
                 keyGenerator>>
  /\ UNCHANGED storeVars
  /\ UNCHANGED rotatorVars
  /\ UNCHANGED histVars
  /\ UNCHANGED lockVars

\* Rotator.Start, already started: ErrRotatorStarted
RegStartStarted ==
  /\ phase = "register"
  /\ RotatorLockFree
  /\ cancel # Nil
  /\ ret' = RegRet("Start", ErrRotatorStarted, Nil)
  /\ UNCHANGED <<cli, phase, nextKey, clientGen>>
  /\ UNCHANGED regVars
  /\ UNCHANGED storeVars
  /\ UNCHANGED rotatorVars
  /\ UNCHANGED histVars
  /\ UNCHANGED lockVars

\* a Start that puts the initial key into the register first
RegStartPublishFirst ==
  /\ phase = "register"
  /\ RotatorLockFree
  /\ cancel = Nil
  /\ nctx < MaxStarts
  /\ nextKey < MaxKeys
  /\ nextKey' = nextKey + 1
  /\ currentKey' = NewKey(nextKey + 1)
  /\ phase' = "starting"
  /\ ret' = NoRet
  /\ UNCHANGED <<cli, clientGen, keyStore, storeLog, stored, loaders,
                 keyGenerator>>
  /\ UNCHANGED storeVars
  /\ UNCHANGED rotatorVars
  /\ UNCHANGED histVars
  /\ UNCHANGED lockVars

\* Rotator.Start under r.lock, not started: Generate and, in unsafeStoreKey,
\* r.keyStore.Store(pk)
RegStartStoreKey ==
  /\ phase = "register"
  /\ RotatorLockFree
  /\ cancel = Nil
  /\ nctx < MaxStarts
  /\ nextKey < MaxKeys
  /\ nextKey' = nextKey + 1
  /\ keyStore' = StoreKey(keyStore, KeyPublicKey(NewKey(nextKey + 1)))
  /\ storeLog' = Append(storeLog, [op |-> "Store", kid |-> nextKey + 1,
                                   k |-> KeyPublicKey(NewKey(nextKey + 1)),
                                   by |-> "rotator"])
  /\ phase' = "starting"
  /\ ret' = NoRet
  /\ UNCHANGED <<cli, clientGen, currentKey, stored, loaders, keyGenerator>>
  /\ UNCHANGED storeVars
  /\ UNCHANGED rotatorVars
  /\ UNCHANGED histVars
  /\ UNCHANGED lockVars

\* Rotator.Start, the rest: r.currentKey.Store(k), the context, the ticker
\* and the run goroutine
RegStartPublish ==
  /\ phase = "starting"
  /\ currentKey' = NewKey(nextKey)
  /\ stored' = Append(stored, NewKey(nextKey))
  /\ nctx' = nctx + 1
  /\ cancel' = nctx + 1
  /\ runs' = [c \in 1..(nctx + 1) |-> IF c = nctx + 1 THEN NewRun ELSE runs[c]]
  /\ phase' = "register"
  /\ ret' = RegRet("Start", ErrNil, nextKey)
  /\ UNCHANGED <<cli, nextKey, ctxDone, cleanups, clientGen, keyStore, storeLog,
                 loaders, keyGenerator>>
  /\ UNCHANGED storeVars
  /\ UNCHANGED histVars
  /\ UNCHANGED lockVars

\* Rotator.Stop, once r.lock is free
RegStopLocked ==
  /\ RotatorLockFree
  /\ RegStop

\* Rotator.Rotate takes r.lock; in unsafeStoreKey, r.keyStore.Store(pk)
RegRunStoreKey(c) ==
  /\ phase = "register"
  /\ RotatorLockFree
  /\ c \in DOMAIN runs
  /\ runs[c].pc = "generated"
  /\ keyStore' = StoreKey(keyStore, KeyPublicKey(runs[c].gen))
  /\ storeLog' = Append(storeLog, [op |-> "Store", kid |-> runs[c].gen.KID,
                                   k |-> KeyPublicKey(runs[c].gen),
                                   by |-> "rotator"])
  /\ runs' = [runs EXCEPT ![c].pc = "stored"]
  /\ ret' = NoRet
  /\ UNCHANGED <<cli, phase, nextKey, cancel, nctx, ctxDone, cleanups, clientGen,
                 currentKey, stored, loaders, keyGenerator>>
  /\ UNCHANGED storeVars
  /\ UNCHANGED histVars
  /\ UNCHANGED lockVars

\* Rotator.Rotate, the rest of unsafeStoreKey: r.currentKey.Store(k), and
\* the deferred Unlock
RegRunPublish(c) ==
  /\ phase = "register"
  /\ c \in DOMAIN runs
  /\ runs[c].pc = "stored"
  /\ currentKey' = runs[c].gen
  /\ stored' = Append(stored, runs[c].gen)
  /\ runs' = [runs EXCEPT ![c].pc = "select", ![c].gen = NilKey]
  /\ ret' = RegRet("Rotate", ErrNil, runs[c].gen.KID)
  /\ UNCHANGED <<cli, phase, nextKey, cancel, nctx, ctxDone, cleanups, clientGen,
                 keyStore, storeLog, loaders, keyGenerator>>
  /\ UNCHANGED storeVars
  /\ UNCHANGED histVars
  /\ UNCHANGED lockVars

\* the register-based build with callers of the KeyStore and of the
\* register, unsafeStoreKey one call at a time
NextStore ==
  \/ NewRegister
  \/ RegStartStarted
  \/ RegStartStoreKey
  \/ RegStartPublish
  \/ RegStopLocked
  \/ \E c \in 1..MaxStarts : RegRunSelect(c)
  \/ \E c \in 1..MaxStarts : RegRunExit(c)
  \/ \E c \in 1..MaxStarts : RegRunGenerate(c)
  \/ \E c \in 1..MaxStarts : RegRunGenerateFail(c)
  \/ \E c \in 1..MaxStarts : RegRunStoreKey(c)
  \/ \E c \in 1..MaxStarts : RegRunPublish(c)
  \/ \E p \in 1..MaxReaders : LoadCall(p)
  \/ \E p \in 1..MaxReaders : LoadRead(p)
  \/ \E p \in 1..MaxReaders : LoadReturn(p)
  \/ \E k \in StoreArgs : CallerWrites < MaxWrites /\ KeyStoreStore(k)
  \/ \E kid \in Kids : CallerWrites < MaxWrites /\ KeyStoreDelete(kid)
  \/ Advance

SpecStore == Init /\ [][NextStore]_vars

\* the KeyStore alone, under callers of its four methods
NextKeyStore ==
  \/ NewRegister
  \/ \E k \in StoreArgs : KeyStoreStore(k)
  \/ \E kid \in Kids : KeyStoreLoadCall(kid)
  \/ KeyStoreLoadAll
  \/ \E kid \in Kids : KeyStoreDelete(kid)

SpecKeyStore == Init /\ [][NextKeyStore]_vars

\* ------------------------------------------------- the key documents served
\* KeyHandler and KeysHandler of either build: what they write to the
\* response.

\* a WriteTo that marshals the jwk key as it is
KeyWriteToWhole(k) == MarshalKey(k.Key)

\* Key.WriteTo: json.Marshal of k.Key.PublicKey()
KeyWriteTo(k) == MarshalKey(PublicKey(k.Key))

\* GeneratedKey.WriteTo: dst.Write(gk.publicJWK)
GeneratedKeyWriteTo(gk) == gk.publicJWK

\* NewPublicSet and json.Marshal of the set: the key documents in it
NewPublicSet(ks) == {MarshalKey(PublicKey(k.Key)) : k \in ks}

ServeRet(op, kid, status, docs) ==
  [op |-> op, by |-> "http", kid |-> kid, err |-> ErrNil, key |-> Nil,
   status |-> status, docs |-> docs]

\* KeyHandler.ServeHTTP of the register-based build: the key of the path's
\* kid from the KeyStore, or the key in the register
KeyHandlerServe(kid) ==
  /\ phase = "register"
  /\ ret' = IF kid # Nil
              THEN IF KeyStoreLoad(kid).err = ErrNil
                     THEN ServeRet("KeyHandler", kid, 200,
                                   {KeyWriteTo(KeyStoreLoad(kid).k)})
                     ELSE ServeRet("KeyHandler", kid, 404, {})
              ELSE IF Load.err = ErrNil
                     THEN ServeRet("KeyHandler", kid, 200, {KeyWriteTo(Load.k)})
                     ELSE ServeRet("KeyHandler", kid, 503, {})
  /\ UNCHANGED <<cli, phase, nextKey, clientGen>>
  /\ UNCHANGED regVars
  /\ UNCHANGED storeVars
  /\ UNCHANGED rotatorVars
  /\ UNCHANGED histVars
  /\ UNCHANGED lockVars

\* KeysHandler.ServeHTTP of the register-based build
KeysHandlerServe ==
  /\ phase = "register"
  /\ ret' = ServeRet("KeysHandler", Nil, 200, NewPublicSet(LoadAll))
  /\ UNCHANGED <<cli, phase, nextKey, clientGen>>
  /\ UNCHANGED regVars
  /\ UNCHANGED storeVars
  /\ UNCHANGED rotatorVars
  /\ UNCHANGED histVars
  /\ UNCHANGED lockVars

\* KeyHandler.ServeHTTP of the Keys build: Get(kid), or Current()
KeysKeyHandlerServe(kid) ==
  /\ phase = "ready"
  /\ ret' = IF kid # Nil
              THEN IF Get(kid).exists
                     THEN ServeRet("KeyHandler", kid, 200,
                                   {GeneratedKeyWriteTo(Get(kid).gk)})
                     ELSE ServeRet("KeyHandler", kid, 404, {})
              ELSE ServeRet("KeyHandler", kid, 200, {GeneratedKeyWriteTo(Current)})
  /\ UNCHANGED <<cli, phase, nextKey, clientGen>>
  /\ UNCHANGED regVars
  /\ UNCHANGED storeVars
  /\ UNCHANGED rotatorVars
  /\ UNCHANGED histVars
  /\ UNCHANGED lockVars

\* KeysHandler.ServeHTTP of the Keys build: keys.WriteTo(response)
KeysKeysHandlerServe ==
  /\ phase = "ready"
  /\ ret' = ServeRet("KeysHandler", Nil, 200,
                     {WriteTo.keys[i] : i \in 1..Len(WriteTo.keys)})
  /\ UNCHANGED <<cli, phase, nextKey, clientGen>>
  /\ UNCHANGED regVars
  /\ UNCHANGED storeVars
  /\ UNCHANGED rotatorVars
  /\ UNCHANGED histVars
  /\ UNCHANGED lockVars

\* ------------------------------------------------------------------- Next
\* the process: NewKeys, then the Rotator and its goroutines
Next ==
  \/ NewKeysOk
  \/ NewKeysFail
  \/ Start
  \/ Stop
  \/ \E c \in 1..MaxStarts : RunSelect(c)
  \/ \E c \in 1..MaxStarts : RunExit(c)
  \/ \E c \in 1..MaxStarts : RunGenerate(c)
  \/ \E c \in 1..MaxStarts : RunGenerateFail(c)
  \/ \E c \in 1..MaxStarts : RunCommit(c)
  \/ \E t \in cleanups : CleanupSelect(t)
  \/ \E t \in cleanups : CleanupDelete(t)
  \/ \E t \in cleanups : CleanupExit(t)
  \/ Advance

Spec == Init /\ [][Next]_vars

\* Fairness: time passes while a ticker or timer is running, a goroutine
\* that can take a step is eventually scheduled, and a select that is
\* evaluated again and again with Done ready (Go picks among the ready cases
\* at random) eventually takes it
Fairness ==
  /\ SF_vars(\E c \in 1..MaxStarts : RunSelect(c) /\ runs'[c].pc = "cancelled")
  /\ WF_vars(Advance)
  /\ WF_vars(\E c \in 1..MaxStarts : RunSelect(c))
  /\ WF_vars(\E c \in 1..MaxStarts : RunExit(c))
  /\ WF_vars(\E c \in 1..MaxStarts : RunGenerate(c) \/ RunGenerateFail(c))
  /\ WF_vars(\E c \in 1..MaxStarts : RunCommit(c))
  /\ WF_vars(\E t \in cleanups : CleanupSelect(t))
  /\ WF_vars(\E t \in cleanups : CleanupDelete(t))
  /\ WF_vars(\E t \in cleanups : CleanupExit(t))

\* fx.StartStopHook(r.Start, r.Stop): the application starts the Rotator
\* when it starts and does not start it again after stopping it
LifecycleStart ==
  /\ nctx = 0 \/ cancel # Nil
  /\ Start

\* the process as the fx lifecycle drives it
NextLive ==
  \/ NewKeysOk
  \/ NewKeysFail
  \/ LifecycleStart
  \/ Stop
  \/ \E c \in 1..MaxStarts : RunSelect(c)
  \/ \E c \in 1..MaxStarts : RunExit(c)
  \/ \E c \in 1..MaxStarts : RunGenerate(c)
  \/ \E c \in 1..MaxStarts : RunGenerateFail(c)
  \/ \E c \in 1..MaxStarts : RunCommit(c)
  \/ \E t \in cleanups : CleanupSelect(t)
  \/ \E t \in cleanups : CleanupDelete(t)
  \/ \E t \in cleanups : CleanupExit(t)
  \/ Advance

SpecLive == Init /\ [][NextLive]_vars /\ Fairness

\* the Keys type under goroutines that call Rotate and Delete directly
NextKeys ==
  \/ NewKeysOk
  \/ NewKeysFail
  \/ \E kid \in KidSpace : ClientDelete(kid)
  \/ \E p \in 1..MaxCallers : ClientGenerate(p)
  \/ \E p \in 1..MaxCallers : ClientGenerateFail(p)
  \/ \E p \in 1..MaxCallers : ClientCommit(p)

SpecKeys == Init /\ [][NextKeys]_vars

\* the register-based build with callers of CurrentKey.Load
NextRegister ==
  \/ NextReg
  \/ \E p \in 1..MaxCallers : LoadCall(p)
  \/ \E p \in 1..MaxCallers : LoadRead(p)
  \/ \E p \in 1..MaxCallers : LoadReturn(p)

SpecRegister == Init /\ [][NextRegister]_vars

\* either build of the process: the Keys store with its Rotator, or the
\* register-based Rotator
SpecBoth == Init /\ [][Next \/ NextReg]_vars

\* the Keys type under direct callers, with a random source that can fail
NextIDs ==
  \/ NextKeys
  \/ \E p \in 1..MaxCallers : ClientGenerateShortID(p)

SpecIDs == Init /\ [][NextIDs]_vars

\* the register-based build with its Signer
NextSigner ==
  \/ NextRegister
  \/ \E p \in 1..MaxCallers : SignToken(p)
  \/ \E p \in 1..MaxCallers : SignPayload(p)
  \/ \E p \in 1..MaxCallers : SignFail(p)

SpecSigner == Init /\ [][NextSigner]_vars

\* either build with the handlers that serve its keys
NextServe ==
  \/ NextReg
  \/ NextKeys
  \/ \E kid \in Kids \cup {Nil} : KeyHandlerServe(kid)
  \/ KeysHandlerServe
  \/ \E kid \in Kids \cup {Nil} : KeysKeyHandlerServe(kid)
  \/ KeysKeysHandlerServe

SpecServe == Init /\ [][NextServe]_vars

\* ================================================================= claims
\* the documents in the snapshot and the public documents of the records
SnapshotDocs == {publicSetJWK.keys[i] : i \in 1..Len(publicSetJWK.keys)}
RecordDocs == {MarshalKey(generatedKeys[k].publicKey) : k \in DOMAIN generatedKeys}

\* the step is the return of a Delete(kid) call / of a Rotate call
DeleteReturns == ret'.op = "Delete"
RotateReturns == ret'.op = "Rotate"

\* C1: once the store is constructed, the key Current() returns is in the
\* records map under its kid: Get(Current().kid) finds it.
C1_CurrentInRecords ==
  phase = "ready" =>
    /\ Get(KID(Current)).exists
    /\ Get(KID(Current)).gk = Current

\* a state after a Rotate and a Delete, with another Rotate under way
C1_Witness ==
  /\ phase = "ready"
  /\ ret.op = "Delete" /\ ret.err = ErrNil
  /\ KID(Current) > 1
  /\ \E p \in 1..MaxCallers : clientGen[p] # NilKey
  /\ Get(KID(Current)).exists

\* C2: the precomputed snapshot holds the public document of every kid in
\* records and of no other: none missing, none extra, none twice.
C2_SnapshotExact ==
  phase = "ready" =>
    /\ SnapshotDocs = RecordDocs
    /\ Len(publicSetJWK.keys) = Cardinality(DOMAIN generatedKeys)

\* a snapshot of two keys after one of three was deleted
C2_Witness ==
  /\ phase = "ready"
  /\ ret.op = "Delete" /\ ret.err = ErrNil
  /\ Cardinality(DOMAIN generatedKeys) = 2
  /\ SnapshotDocs = RecordDocs

C4_RotateReturnsPrior ==
  [][(RotateReturns /\ ret'.err = ErrNil) =>
       /\ ret'.key = KID(current)
       /\ ret'.by = "rotator" =>
            \E t \in cleanups' \ cleanups :
              /\ t.kid = KID(current)
              /\ t.kid # KID(current')
              /\ cleanups' = cleanups \cup {t}]_vars

\* C5: a Rotate whose generation fails returns the error and leaves
\* records, current and the snapshot as they were.
C5_FailedRotateNoChange ==
  [][(RotateReturns /\ ret'.err # ErrNil) =>
       /\ ret'.err = ErrGenerate
       /\ generatedKeys' = generatedKeys
       /\ current' = current
       /\ publicSetJWK' = publicSetJWK]_vars

\* a failed Rotate on a store that has already rotated once
C5_Witness ==
  /\ ret.op = "Rotate" /\ ret.err = ErrGenerate
  /\ KID(Current) > 1
  /\ Cardinality(DOMAIN generatedKeys) >= 2

\* C6: Delete of the current kid returns ErrDeleteCurrentKey, every time,
\* and leaves records, current and the snapshot as they were.
C6_DeleteCurrentRefused ==
  [][(DeleteReturns /\ ret'.kid = KID(current)) =>
       /\ ret'.err = ErrDeleteCurrentKey
       /\ generatedKeys' = generatedKeys
       /\ current' = current
       /\ publicSetJWK' = publicSetJWK
       /\ KID(Current') = ret'.kid]_vars

\* Delete of the current kid was refused on a store with an older key
C6_Witness ==
  /\ ret.op = "Delete" /\ ret.err = ErrDeleteCurrentKey
  /\ ret.kid = KID(Current)
  /\ Cardinality(DOMAIN generatedKeys) >= 2

C8_DeleteAbsentNil ==
  [][(DeleteReturns /\ ret'.kid \notin DOMAIN generatedKeys) =>
       ret'.err = ErrNil]_vars

\* C9: Delete of a kid that is present and not current removes that record
\* and its document from the snapshot in one step and leaves current and
\* every other record and document as they were.
C9_DeleteRemovesExactlyOne ==
  [][(DeleteReturns /\ ret'.kid \in DOMAIN generatedKeys
        /\ ret'.kid # KID(current)) =>
       /\ ret'.err = ErrNil
       /\ ret'.kid \notin DOMAIN generatedKeys'
       /\ DOMAIN generatedKeys' = DOMAIN generatedKeys \ {ret'.kid}
       /\ \A k \in DOMAIN generatedKeys' : generatedKeys'[k] = generatedKeys[k]
       /\ current' = current
       /\ publicSetJWK'.keys =
            SelectSeq(publicSetJWK.keys,
                      LAMBDA d : d # MarshalKey(generatedKeys[ret'.kid].publicKey))
       /\ Len(publicSetJWK'.keys) = Len(publicSetJWK.keys) - 1]_vars

\* an older key was deleted from a store of three
C9_Witness ==
  /\ ret.op = "Delete" /\ ret.err = ErrNil
  /\ ~Get(ret.kid).exists
  /\ Cardinality(DOMAIN generatedKeys) = 2
  /\ Len(publicSetJWK.keys) = 2

\* C10: a retirement whose context was cancelled while its grace timer was
\* still running never calls Delete, and the Rotator never removes its key.
C10_StoppedRetirementNeverDeletes ==
  \A t \in cleanups :
    t.early => (~t.called /\ removedBy[t.kid] # "rotator")

\* C11: once Stop has returned, a run goroutine that evaluates its select
\* takes no tick, so it starts no Rotate, and a cleanup goroutine that
\* evaluates its select does not take its timer, so it starts no Delete.
C11_NoStepBegunAfterStop ==
  [][/\ \A c \in DOMAIN runs :
          (Done(c) /\ runs[c].pc = "select") => runs'[c].pc # "tick"
     /\ \A t \in cleanups :
          (Done(t.ctx) /\ t.pc = "select") =>
             [t EXCEPT !.pc = "fired"] \notin cleanups']_vars

\* the rotation tasks whose run loop has not returned
AliveRuns == {c \in DOMAIN runs : runs[c].pc # "done"}

\* C12: Start on a Rotator that is Running changes nothing: no new context,
\* ticker or rotation task, no key generated, nothing stored; the Rotator
\* that signals returns ErrRotatorStarted.  One rotation task is active.
C12_StartWhileRunning ==
  [][/\ (Start /\ cancel # Nil) =>
          /\ UNCHANGED <<rotatorVars, storeVars, regVars, nextKey>>
          /\ Cardinality({c \in DOMAIN runs' : c \notin ctxDone'}) = 1
     /\ (RegStart /\ cancel # Nil) =>
          /\ ret'.err = ErrRotatorStarted
          /\ UNCHANGED <<rotatorVars, storeVars, regVars, nextKey>>
          /\ Cardinality({c \in DOMAIN runs' : c \notin ctxDone'}) = 1]_vars

\* Start was called on a started Rotator whose task has rotated already
C12_Witness ==
  /\ ret.op = "Start" /\ ret.err = ErrRotatorStarted
  /\ cancel # Nil
  /\ nextKey >= 2
  /\ Cardinality(AliveRuns) = 1

\* C13: at most one rotation task is alive at any time, and while the
\* Rotator is started every live task belongs to its current context.
C13_OneRotationTask ==
  /\ Cardinality(AliveRuns) <= 1
  /\ cancel # Nil =>
       /\ \A c \in AliveRuns : c = cancel
       /\ \A t \in cleanups : t.pc # "done" => t.ctx = cancel

\* C14: Stop on a Rotator that is Stopped cancels nothing and changes
\* nothing, the Rotator that signals returns ErrRotatorStopped, and a Start
\* that follows makes the Rotator Running again.
C14_StopWhileStopped ==
  [][/\ (Stop /\ cancel = Nil) =>
          UNCHANGED <<rotatorVars, storeVars, regVars, nextKey>>
     /\ (RegStop /\ cancel = Nil) =>
          /\ ret'.err = ErrRotatorStopped
          /\ UNCHANGED <<rotatorVars, storeVars, regVars, nextKey>>
     /\ ((Start \/ RegStart) /\ cancel = Nil) =>
          /\ cancel' # Nil
          /\ cancel' \notin ctxDone'
          /\ cancel' \in DOMAIN runs' /\ runs'[cancel'].pc = "select"]_vars

\* Stop was called again after a Stop, with the first task gone
C14_Witness ==
  /\ ret.op = "Stop" /\ ret.err = ErrRotatorStopped
  /\ cancel = Nil
  /\ nctx >= 1
  /\ AliveRuns = {}

\* the kid of the key a rotation is about to supersede
PriorKid == IF phase = "ready" THEN KID(current) ELSE currentKey.KID

\* C15: each successful rotation by the rotation task schedules a one-shot
\* retirement task for the kid it superseded (which then deletes the key
\* once the grace period is over).
C15_RetirementScheduled ==
  [][(RotateReturns /\ ret'.err = ErrNil /\ ret'.by \in {"rotator", "register"}) =>
       \E t \in cleanups' \ cleanups : t.kid = PriorKid]_vars

\* With the Rotator of rotator.go: every superseded key has a retirement
\* task for its kid, and unless the context of that task is cancelled the
\* key is eventually gone from the store.
RetirementEventuallyDeletes ==
  \A k \in Kids :
    /\ [](age[k] # NoTime => \E t \in cleanups : t.kid = k)
    /\ (age[k] # NoTime) ~>
         \/ k \notin DOMAIN generatedKeys
         \/ \E t \in cleanups : t.kid = k /\ Done(t.ctx)

\* C16: a rotation that fails on a tick is reported, changes nothing in
\* the store, schedules no retirement and leaves the loop at its select
\* with the ticker running; a tick whose generation succeeds, also after a
\* failure, rotates the key.
C16_FailedTickLoopGoesOn ==
  [][\A c \in DOMAIN runs :
       /\ (runs[c].pc = "tick" /\ runs'[c] # runs[c]
             /\ ret'.op = "Rotate" /\ ret'.err # ErrNil) =>
            /\ ret'.err = ErrGenerate
            /\ UNCHANGED storeVars
            /\ cleanups' = cleanups
            /\ runs' = [runs EXCEPT ![c].pc = "select"]
            /\ ~runs'[c].tickerStopped
       /\ (runs[c].pc = "generated" /\ runs'[c].pc # "generated") =>
            /\ current' = runs[c].gen
            /\ KID(runs[c].gen) \in DOMAIN generatedKeys'
            /\ runs'[c].pc = "select"]_vars

\* a failed rotation has just been reported by a loop that is still running
\* and can still generate a key
C16_Witness ==
  /\ ret.op = "Rotate" /\ ret.by = "rotator" /\ ret.err = ErrGenerate
  /\ cancel # Nil /\ ~Done(cancel)
  /\ runs[cancel].pc = "select" /\ ~runs[cancel].tickerStopped
  /\ nextKey < MaxKeys
  /\ cleanups = {}

\* the retirement tasks created for kid k
TasksFor(k) == {t \in cleanups : t.kid = k}

C18_AllTasksTerminate ==
  \A c \in 1..MaxStarts :
    (c \in ctxDone) ~>
       /\ c \in DOMAIN runs
       /\ runs[c].pc = "done" /\ runs[c].tickerStopped
       /\ \A t \in cleanups : t.ctx = c => (t.pc = "done" /\ t.left = 0)

\* after Stop the rotation task has returned and a retirement task has
\* returned without calling Delete
C18_Witness ==
  /\ cancel = Nil /\ 1 \in ctxDone
  /\ runs[1].pc = "done" /\ runs[1].tickerStopped
  /\ \E t \in cleanups : t.ctx = 1 /\ ~t.called
  /\ \A t \in cleanups : t.pc = "done" /\ t.left = 0

\* C19: a Load returns ErrNoCurrentKey only if no Store was made before it
\* read, and never if a Store had completed before it was called; otherwise
\* it returns, whole, the Key of one Store call: the last one completed
\* before the Load was called or one made while the Load was running.
C19_RegisterTotalReplacement ==
  \A p \in 1..MaxCallers :
    loaders[p].pc = "read" =>
      /\ loaders[p].err \in {ErrNil, ErrNoCurrentKey}
      /\ loaders[p].err = ErrNoCurrentKey =>
           /\ loaders[p].from = 0
           /\ loaders[p].k = NoKey
      /\ loaders[p].from > 0 => loaders[p].err = ErrNil
      /\ loaders[p].err = ErrNil =>
           \E i \in 1..Len(stored) :
             /\ i >= loaders[p].from
             /\ loaders[p].k = stored[i]

\* a Load that overlapped a Store returned the key of that Store, while an
\* earlier Store had completed before the Load was called
C19_Witness ==
  \E p \in 1..MaxCallers :
    /\ loaders[p].pc = "read"
    /\ loaders[p].from = 1
    /\ Len(stored) = 2
    /\ loaders[p].k = stored[2]
    /\ loaders[p].err = ErrNil

\* the algorithm the key parameters select, as a table; NoAlg where they
\* select none
SelectedAlg(c) ==
  LET ecAlg == [curve \in {"P-256", "P-384", "P-521"} |->
                  IF curve = "P-256" THEN "ES256"
                  ELSE IF curve = "P-384" THEN "ES384" ELSE "ES512"]
  IN  IF c.KeyType = "EC" /\ c.KeyCurve \in DOMAIN ecAlg THEN ecAlg[c.KeyCurve]
      ELSE IF c.KeyType = "RSA" /\ ~(c.KeySize <= 0) THEN "RS256"
      ELSE NoAlg

\* C20: a constructed generator has the algorithm of the table EC/P-256 ->
\* ES256, EC/P-384 -> ES384, EC/P-521 -> ES512, RSA with a positive size ->
\* RS256 and no error; for every other combination construction returned an
\* error, the generator has no algorithm and no key was ever generated.
C20_AlgorithmSelection ==
  keyGenerator # NoGenerator =>
    /\ keyGenerator.alg = SelectedAlg(cli)
    /\ keyGenerator.err = ErrNil <=> SelectedAlg(cli) # NoAlg
    /\ keyGenerator.err # ErrNil => nextKey = 0 /\ ret.op # "Generate"
    /\ ret.op = "Generate" /\ ret.err = ErrNil => ret.key = SelectedAlg(cli)

\* an RSA generator was refused for its size, on a command line whose curve
\* alone would have been accepted
C20_Witness ==
  /\ keyGenerator # NoGenerator
  /\ cli.KeyType = "RSA"
  /\ cli.KeySize = 0
  /\ cli.KeyCurve = "P-256"
  /\ keyGenerator.err = ErrUnsupported

\* C21: a key that Generate returned without an error has a kid drawn in
\* full from the random source, and no two keys that Generate returned and
\* the store holds or is about to insert share a kid.
C21_KidFullyDrawn ==
  /\ \A p \in 1..MaxCallers :
       clientGen[p] # NilKey => KID(clientGen[p]) \in Kids
  /\ \A p \in 1..MaxCallers :
       clientGen[p] # NilKey =>
         (KID(clientGen[p]) \in DOMAIN generatedKeys =>
            generatedKeys[KID(clientGen[p])] = clientGen[p])

\* the callers inside Rotate whose Generate has not returned yet, and those
\* whose new key is generated and not yet inserted
Generating == {p \in 1..MaxCallers : calls[p].op = "Rotate" /\ calls[p].pc = "generate"}
Uncommitted == {p \in 1..MaxCallers : clientGen[p] # NilKey}

\* C22: a caller of Rotate that is generating holds keys.lock neither as
\* writer nor as reader, the write lock is held only between Lock and the
\* commit; while a Rotate is generating and no other call is in or waiting
\* for the critical section, Current, Get and WriteTo of every idle caller
\* can proceed; and until a Rotate commits, every read returns the state
\* before that rotation: not the new key as current, no record of it and
\* no document of it in the snapshot.
C22_GenerateOutsideLock ==
  /\ \A p \in Generating : lock.w # p /\ p \notin lock.r
  /\ \A p \in 1..MaxCallers : lock.w = p => calls[p].pc = "locked"
  /\ \A p \in Generating :
       (lock.w = Nil /\ ~WriterWaiting) =>
         \A q \in 1..MaxCallers :
           calls[q] = IdleCall =>
             /\ ENABLED CallCurrent(q)
             /\ ENABLED CallWriteTo(q)
             /\ \A kid \in KidSpace : ENABLED CallGet(q, kid)
  /\ \A p \in Uncommitted :
       /\ KID(Current) # KID(clientGen[p])
       /\ ~Get(KID(clientGen[p])).exists
       /\ MarshalKey(clientGen[p].publicKey) \notin SnapshotDocs

\* a Current() returned the old key while a Rotate was generating
C22_Witness ==
  /\ Generating # {}
  /\ ret.op = "Current"
  /\ ret.key = KID(current)
  /\ lock = Unlocked

\* C23: no caller holds keys.lock, as reader or writer, while it generates
\* a key or while its write to the destination is under way, so no Lock()
\* of Rotate or Delete waits for a WriteTo whose destination is slow.
C23_LockOnlyForBookkeeping ==
  /\ \A p \in 1..MaxCallers :
       calls[p].pc \in {"generate", "write"} => (lock.w # p /\ p \notin lock.r)
  /\ \A p \in 1..MaxCallers :
       calls[p].pc = "lock" =>
         ~(\E q \in lock.r : calls[q].pc = "write")

\* the kids that were current once and were replaced by a Rotate
SupersededKids == {k \in KidSpace : age[k] # NoTime}

\* C24: as long as no Delete removed a record, a constructed store that n
\* Rotate calls succeeded on holds exactly n + 1 records, Current() is the
\* record of the last of them (the one the last Rotate returned), and every
\* kid that was current before, the initial one included, is still found
\* by Get.
C24_RecordsAfterRotations ==
  (phase = "ready" /\ \A k \in KidSpace : removedBy[k] = "") =>
    /\ Cardinality(DOMAIN generatedKeys) = Cardinality(SupersededKids) + 1
    /\ Cardinality(DOMAIN generatedKeys) = nextKey - Cardinality(Uncommitted)
    /\ KID(Current) \notin SupersededKids
    /\ Get(KID(Current)).gk = Current
    /\ \A k \in SupersededKids : Get(k).exists /\ KID(Get(k).gk) = k
    /\ (ret.op = "Rotate" /\ ret.err = ErrNil) => ret.key = KID(Current)

\* the second Rotate has just returned: three records, the third current,
\* the first still there
C24_Witness ==
  /\ phase = "ready"
  /\ \A k \in KidSpace : removedBy[k] = ""
  /\ ret.op = "Rotate" /\ ret.err = ErrNil
  /\ Cardinality(SupersededKids) = 2
  /\ Cardinality(DOMAIN generatedKeys) = 3
  /\ Get(1).exists

C26_ConstructionInstallsOneKey ==
  [][ret'.op = "NewKeys" =>
       IF ret'.err = ErrNil
         THEN /\ Cardinality(DOMAIN generatedKeys') = 1
              /\ KID(current') # Nil
              /\ DOMAIN generatedKeys' = {KID(current')}
              /\ generatedKeys'[KID(current')] = current'
              /\ publicSet' = <<current'.publicKey>>
              /\ publicSetJWK'.keys = <<MarshalKey(current'.publicKey)>>
              /\ ret'.key = KID(current')
         ELSE /\ ret'.err = ErrGenerate
              /\ current' = NilKey
              /\ generatedKeys' = <<>>
              /\ publicSet' = <<>>
              /\ phase' # "ready"]_vars

\* NewKeys has just returned a store whose one record is current
C26_Witness ==
  /\ ret.op = "NewKeys"
  /\ ret.err = ErrNil
  /\ phase = "ready"
  /\ DOMAIN generatedKeys = {KID(Current)}
  /\ Get(KID(Current)).exists
  /\ Len(publicSetJWK.keys) = 1

SignReturns == ret'.op \in {"SignToken", "SignPayload"}

\* C27: when the Load of a SignToken or SignPayload call returned
\* ErrNoCurrentKey the call returns that error and no signed output, and
\* every signed output is made with the private key of a Key that was
\* stored in the register, under that Key's kid, never with an empty key.
C27_NoSigningWithoutKey ==
  [][SignReturns =>
       \A p \in 1..MaxCallers :
         (loaders[p].pc = "read" /\ loaders'[p] = IdleLoader) =>
           /\ loaders[p].err = ErrNoCurrentKey =>
                /\ ret'.err = ErrNoCurrentKey
                /\ ret'.kid = Nil
                /\ ret'.key = Nil
           /\ ret'.err = ErrNil =>
                /\ ret'.key # Nil
                /\ \E i \in 1..Len(stored) :
                     /\ stored[i].KID = ret'.kid
                     /\ stored[i].Key.priv = ret'.key]_vars

\* SignToken was refused before the Rotator stored its first key
C27_Witness ==
  /\ ret.op = "SignToken"
  /\ ret.err = ErrNoCurrentKey
  /\ ret.key = Nil
  /\ stored = <<>>
  /\ currentKey = NoKey

\* C28: when Start of the register-based Rotator returns nil, the register
\* holds a key, so that Load succeeds, the KeyStore holds the public form of
\* that key under its kid, the key is one that was never stored before, also
\* when this Start follows a Stop, and the Rotator is running.
C28_StartRotatesFirst ==
  [][(ret'.op = "Start" /\ ret'.by = "register" /\ ret'.err = ErrNil) =>
       /\ currentKey' # NoKey
       /\ currentKey'.KID = ret'.key
       /\ currentKey'.KID \in DOMAIN keyStore'
       /\ keyStore'[currentKey'.KID] = KeyPublicKey(currentKey')
       /\ keyStore'[currentKey'.KID].Key.priv = Nil
       /\ currentKey' # currentKey
       /\ \A i \in 1..Len(stored) : stored[i] # currentKey'
       /\ cancel' # Nil]_vars

\* a Start after a Stop has returned nil with a new current key
C28_Witness ==
  /\ ret.op = "Start" /\ ret.by = "register" /\ ret.err = ErrNil
  /\ nctx = 2
  /\ Len(stored) >= 2
  /\ Load.err = ErrNil
  /\ KeyStoreLoad(Load.k.KID).err = ErrNil

\* C29: a Rotate of the register-based Rotator that returns an error, from
\* Generate, from k.PublicKey() or from KeyStore.Store, leaves the register
\* as it was: Load returns what it returned before the call.
C29_FailedRotateKeepsCurrent ==
  [][(RotateReturns /\ ret'.by = "register" /\ ret'.err # ErrNil) =>
       /\ ret'.err \in {ErrGenerate, ErrPublicKey, ErrStore}
       /\ currentKey' = currentKey
       /\ stored' = stored
       /\ ret'.key = Nil]_vars

\* a Rotate failed in KeyStore.Store while the initial key was current
C29_Witness ==
  /\ ret.op = "Rotate" /\ ret.by = "register"
  /\ ret.err = ErrStore
  /\ Load.err = ErrNil
  /\ Load.k = NewKey(1)
  /\ nextKey = 2

\* C30: a Start of the register-based Rotator whose key generation fails
\* returns the generation error, stores nothing in the KeyStore or in the
\* register, starts no rotation task and leaves the Rotator stopped, able
\* to be started later.
C30_StartGenerationFailure ==
  [][RegStartGenerateFail =>
       /\ ret'.op = "Start"
       /\ ret'.err = ErrGenerate
       /\ UNCHANGED <<currentKey, keyStore, stored>>
       /\ UNCHANGED <<cancel, runs, nctx>>
       /\ phase' = "register"]_vars

C33_SignsWithTheKeyItRead ==
  [][\A p \in 1..MaxCallers :
       /\ (calls[p] = IdleCall /\ calls'[p].op = "Sign") =>
            /\ calls'[p].gk = Current
            /\ Get(KID(Current)).exists
            /\ Get(KID(Current)).gk = calls'[p].gk
       /\ (calls[p].op = "Sign" /\ calls'[p] = IdleCall /\ ret'.err = ErrNil) =>
            /\ ret'.op = "Sign"
            /\ ret'.kid = KID(calls[p].gk)
            /\ ret'.key = calls[p].gk.key.priv
            /\ ret'.key # Nil
            /\ ret'.kid = ret'.key]_vars

\* a Sign has returned a token under the kid of a key that was replaced
\* and deleted after Sign had read it
C33_Witness ==
  /\ ret.op = "Sign" /\ ret.err = ErrNil
  /\ ret.kid = 1
  /\ KID(Current) = 2
  /\ ~Get(1).exists

\* C34: the register-based Rotator writes a new key to the KeyStore before
\* it publishes it in the CurrentKey register: in every state, the key the
\* register holds, and every key a caller has got from CurrentKey.Load, is
\* in the KeyStore under its kid unless a Delete was issued for that kid.
C34_StoredBeforePublished ==
  LET Deleted(kid) == \E i \in 1..Len(storeLog) :
                        storeLog[i].op = "Delete" /\ storeLog[i].kid = kid
      InStore(k) == Deleted(k.KID) \/ KeyStoreLoad(k.KID).err = ErrNil
  IN  /\ Load.err = ErrNil => InStore(Load.k)
      /\ \A p \in 1..MaxCallers :
           (loaders[p].pc = "read" /\ loaders[p].err = ErrNil) =>
             InStore(loaders[p].k)

\* the Rotator is between its two writes for key 2, a caller holds key 1
\* from the register, and callers have written to the KeyStore meanwhile
C34_Witness ==
  /\ \E c \in DOMAIN runs : runs[c].pc = "stored" /\ runs[c].gen.KID = 2
  /\ KeyStoreLoad(2).err = ErrNil
  /\ Load.err = ErrNil
  /\ Load.k.KID = 1
  /\ \E p \in 1..MaxCallers :
       /\ loaders[p].pc = "read"
       /\ loaders[p].err = ErrNil
       /\ loaders[p].k.KID = 1
  /\ KeyStoreLoad(1).err = ErrNil
  /\ CallerWrites > 0

\* C35: a key whose retirement Stop aborted (the context was cancelled while
\* the grace timer was still running) is never removed by the Rotator, in
\* the same run or after a later Start: it stays in the store unless a
\* caller deletes it.
C35_AbortedRetirementKeyStays ==
  \A t \in cleanups :
    t.early =>
      /\ removedBy[t.kid] # "rotator"
      /\ removedBy[t.kid] = "" => Get(t.kid).exists

\* C36: with concurrent Rotate calls on one store, each Rotate that swaps
\* the current key reports the key it replaced as the prior current, so
\* that every superseded key is reported by exactly the one call that
\* superseded it; the key it generated is in records afterwards and, being
\* the last to enter the critical section, it is the current key.
C36_EachPriorReportedOnce ==
  [][\A p \in 1..MaxCallers :
       (calls[p].op = "Rotate" /\ calls[p].pc = "locked" /\ calls'[p] = IdleCall) =>
          /\ ret'.op = "Rotate" /\ ret'.err = ErrNil
          /\ ret'.key = KID(current)
          /\ KID(clientGen[p]) \in DOMAIN generatedKeys'
          /\ current' = clientGen[p]
          /\ KID(current) \in DOMAIN generatedKeys']_vars

\* the key of the most recent Store for kid in a log of KeyStore writes,
\* NoKey if there is none or a Delete for kid came after it
RECURSIVE LastStored(_, _)
LastStored(log, kid) ==
  IF log = <<>> THEN NoKey
  ELSE IF log[Len(log)].kid = kid
         THEN IF log[Len(log)].op = "Store" THEN log[Len(log)].k ELSE NoKey
         ELSE LastStored(SubSeq(log, 1, Len(log) - 1), kid)

\* C37: for the in-memory KeyStore, Load(kid) returns the key of the most
\* recent Store for kid that no Delete has followed, and ErrNoSuchKey if
\* there is none; Delete of an absent kid returns ErrNoSuchKey and leaves
\* the map as it was; LoadAll returns exactly the keys stored and not
\* deleted since.
C37_KeyStoreIsAMap ==
  [][/\ ret'.op = "KeyStore.Load" =>
          /\ storeLog' = storeLog
          /\ keyStore' = keyStore
          /\ IF LastStored(storeLog, ret'.kid) = NoKey
               THEN ret'.err = ErrNoSuchKey
               ELSE ret'.err = ErrNil /\ ret'.k = LastStored(storeLog, ret'.kid)
     /\ (ret'.op = "KeyStore.Delete" /\ storeLog' # storeLog
         /\ LastStored(storeLog, ret'.kid) = NoKey) =>
          /\ ret'.err = ErrNoSuchKey
          /\ keyStore' = keyStore
     /\ ret'.op = "KeyStore.LoadAll" =>
          /\ keyStore' = keyStore
          /\ ret'.ks = {LastStored(storeLog, kid) : kid \in Kids} \ {NoKey}]_vars

\* key 1 was stored, deleted and stored again with other material, and a
\* Load of kid 1 has returned the later key
C37_Witness ==
  /\ Len(storeLog) = 3
  /\ storeLog[1].op = "Store" /\ storeLog[1].kid = 1
  /\ storeLog[2].op = "Delete" /\ storeLog[2].kid = 1
  /\ storeLog[3].op = "Store" /\ storeLog[3].kid = 1
  /\ storeLog[3].k # storeLog[1].k
  /\ ret.op = "KeyStore.Load" /\ ret.kid = 1
  /\ ret.err = ErrNil
  /\ ret.k = storeLog[3].k

\* a served key document carries the private parameter
HasPrivate(doc) == Len(doc) > 4

\* C38: private key material stays on the signing path: every key the
\* register-based Rotator has written to the KeyStore is the public
\* projection of a key it generated, while the register holds that key
\* with its private part; and no key document served by a handler, from the
\* KeyStore, the register or the Keys store, carries a private parameter.
C38_OnlyPublicMaterialLeaves ==
  /\ \A i \in 1..Len(storeLog) :
       (storeLog[i].op = "Store" /\ storeLog[i].by = "rotator") =>
         /\ storeLog[i].k.Key.priv = Nil
         /\ storeLog[i].k = [NewKey(storeLog[i].kid) EXCEPT !.Key.priv = Nil]
  /\ \A kid \in DOMAIN keyStore : keyStore[kid].Key.priv = Nil
  /\ currentKey # NoKey =>
       /\ currentKey.Key.priv # Nil
       /\ currentKey = NewKey(currentKey.KID)
  /\ ret.by = "http" => \A doc \in ret.docs : ~HasPrivate(doc)

\* the key in the register, which holds its private part, was served, and
\* the KeyStore holds two keys
C38_Witness ==
  /\ ret.by = "http" /\ ret.op = "KeyHandler" /\ ret.kid = Nil
  /\ ret.status = 200
  /\ currentKey # NoKey
  /\ currentKey.Key.priv # Nil
  /\ ret.docs = {<<"kid", currentKey.KID, "pub", currentKey.Key.pub>>}
  /\ Cardinality(DOMAIN keyStore) = 2

====
